---- MODULE Spec2Model ----
(***************************************************************************)
(* A model of the request pipeline of the GitHub v3 client: the request    *)
(* builder (client.go NewRequest), the rate tracker (Client.rates guarded  *)
(* by Client.ratesMutex), the transport step, the response classifier      *)
(* (github.go newResponse), the error mapper and the body decoder          *)
(* (client.go Do), and the service wrapper around them (user.go User).     *)
(*                                                                         *)
(* Strings that the code parses (header values) are sequences of           *)
(* one-character strings; strings that the code only tests for a prefix    *)
(* or a suffix (paths, documentation URLs) are sequences of fragments.     *)
(***************************************************************************)
EXTENDS Integers, Sequences, FiniteSets, TLC

\* ------------------------------------------------------------------------
\* Bounds of the model
\* ------------------------------------------------------------------------

\* The clock (seconds since the epoch) runs from 0 to MaxTime.
MaxTime == 3

\* ------------------------------------------------------------------------
\* Program constants
\* ------------------------------------------------------------------------

StatusOK == 200
StatusCreated == 201
StatusNoContent == 204
StatusAccepted == 202
StatusBadRequest == 400
StatusUnauthorized == 401
StatusForbidden == 403
StatusNotFound == 404
StatusInternalServerError == 500

rateGroupCore == "core"
rateGroupSearch == "search"
rateGroupGraphQL == "graphql"

userAgent == "moorara/github"
mediaJSON == "application/json"
mediaTypeV3 == "application/vnd.github.v3+json"

\* The suffix of a documentation URL that marks an abuse rate limit.
abuseMarker == <<"#abuse-rate-limits">>

\* The nil pointer, the nil error and the nil interface value.
Nil == [type |-> "nil"]

\* Milliseconds per unit of time.ParseDuration (the model counts durations
\* in milliseconds).
Millisecond == 1
Second == 1000
Minute == 60000

\* ------------------------------------------------------------------------
\* Strings
\* ------------------------------------------------------------------------

DigitChars == {"0", "1", "2", "3", "4", "5", "6", "7", "8", "9"}

DigitVal(ch) ==
  CASE ch = "0" -> 0 [] ch = "1" -> 1 [] ch = "2" -> 2 [] ch = "3" -> 3
    [] ch = "4" -> 4 [] ch = "5" -> 5 [] ch = "6" -> 6 [] ch = "7" -> 7
    [] ch = "8" -> 8 [] ch = "9" -> 9

DigitChar(d) ==
  CASE d = 0 -> "0" [] d = 1 -> "1" [] d = 2 -> "2" [] d = 3 -> "3"
    [] d = 4 -> "4" [] d = 5 -> "5" [] d = 6 -> "6" [] d = 7 -> "7"
    [] d = 8 -> "8" [] d = 9 -> "9"

\* strings.HasPrefix
HasPrefix(s, prefix) ==
  /\ Len(s) >= Len(prefix)
  /\ SubSeq(s, 1, Len(prefix)) = prefix

\* strings.HasSuffix
HasSuffix(s, suffix) ==
  /\ Len(s) >= Len(suffix)
  /\ SubSeq(s, Len(s) - Len(suffix) + 1, Len(s)) = suffix

\* The value of a string of decimal digits.
RECURSIVE DigitsValue(_)
DigitsValue(s) ==
  IF s = <<>> THEN 0
  ELSE 10 * DigitsValue(SubSeq(s, 1, Len(s) - 1)) + DigitVal(s[Len(s)])

AllDigits(s) == \A i \in 1..Len(s) : s[i] \in DigitChars

\* strconv.Atoi with its error dropped: an optional sign followed by one or
\* more decimal digits gives the number, anything else gives 0.
Atoi(s) ==
  LET signed == s # <<>> /\ s[1] \in {"+", "-"}
      digits == IF signed THEN Tail(s) ELSE s
  IN  IF digits = <<>> \/ ~AllDigits(digits) THEN 0
      ELSE IF signed /\ s[1] = "-" THEN 0 - DigitsValue(digits)
      ELSE DigitsValue(digits)

\* strconv.Itoa for a natural number.
RECURSIVE Itoa(_)
Itoa(n) ==
  IF n < 10 THEN <<DigitChar(n)>>
  ELSE Itoa(n \div 10) \o <<DigitChar(n % 10)>>

\* The length of the longest prefix of s whose characters are all in chars.
RECURSIVE LeadingLen(_, _)
LeadingLen(s, chars) ==
  IF s = <<>> \/ s[1] \notin chars THEN 0
  ELSE 1 + LeadingLen(Tail(s), chars)

\* The length of the longest prefix of s that holds no digit.
RECURSIVE LeadingNonDigits(_)
LeadingNonDigits(s) ==
  IF s = <<>> \/ s[1] \in DigitChars THEN 0
  ELSE 1 + LeadingNonDigits(Tail(s))

\* unitMap of time.ParseDuration, in milliseconds; 0 stands for "no such unit".
\* (No header value of the model holds a '.', or the units ns, us and h.)
UnitOf(u) ==
  CASE u = <<"m", "s">> -> Millisecond
    [] u = <<"s">> -> Second
    [] u = <<"m">> -> Minute
    [] OTHER -> 0

\* The loop of time.ParseDuration over "<digits><unit>..." terms:
\* [ok |-> whether every term parsed, d |-> the sum of the terms].
RECURSIVE ParseTerms(_)
ParseTerms(s) ==
  IF s = <<>> THEN [ok |-> TRUE, d |-> 0]
  ELSE LET n == LeadingLen(s, DigitChars)
           afterNum == SubSeq(s, n + 1, Len(s))
           u == LeadingNonDigits(afterNum)
           unit == UnitOf(SubSeq(afterNum, 1, u))
           rest == ParseTerms(SubSeq(afterNum, u + 1, Len(afterNum)))
       IN  IF n = 0 \/ u = 0 \/ unit = 0 \/ ~rest.ok
             THEN [ok |-> FALSE, d |-> 0]
             ELSE [ok |-> TRUE, d |-> DigitsValue(SubSeq(s, 1, n)) * unit + rest.d]

\* time.ParseDuration with its error dropped: the duration in milliseconds,
\* or 0 if s is not a duration.
ParseDuration(s) ==
  LET signed == s # <<>> /\ s[1] \in {"+", "-"}
      body == IF signed THEN Tail(s) ELSE s
      terms == ParseTerms(body)
  IN  IF body = <<"0">> THEN 0
      ELSE IF body = <<>> \/ ~terms.ok THEN 0
      ELSE IF signed /\ s[1] = "-" THEN 0 - terms.d
      ELSE terms.d

\* ------------------------------------------------------------------------
\* Rate groups and the response classifier (github.go)
\* ------------------------------------------------------------------------

RateGroups == {rateGroupCore, rateGroupSearch, rateGroupGraphQL}

\* getRateGroup on the prefix of u.String(), which starts with the host.
getRateGroupOfString(u) ==
  IF HasPrefix(<<u.Host>> \o u.Path, <<"/search">>) THEN rateGroupSearch
  ELSE IF HasPrefix(<<u.Host>> \o u.Path, <<"/graphql">>) THEN rateGroupGraphQL
  ELSE rateGroupCore

\* getRateGroup: the rate group of a request URL.
getRateGroup(u) ==
  IF HasPrefix(u.Path, <<"/search">>) THEN rateGroupSearch
  ELSE IF HasPrefix(u.Path, <<"/graphql">>) THEN rateGroupGraphQL
  ELSE rateGroupCore

\* The zero value of Rate.
ZeroRate == [Limit |-> 0, Used |-> 0, Remaining |-> 0, Reset |-> 0]

\* ParseRate that gives up at the first header that is no number: the fields
\* of the headers after it stay zero.
ParseRateStoppingAtFirstError(h) ==
  LET Bad(s) == s # <<>> /\ Atoi(s) = 0 /\ s # <<"0">>
      Value(s) == IF s # <<>> THEN Atoi(s) ELSE 0
  IN  IF Bad(h.Limit) THEN ZeroRate
      ELSE IF Bad(h.Used) THEN [ZeroRate EXCEPT !.Limit = Value(h.Limit)]
      ELSE IF Bad(h.Remaining)
        THEN [ZeroRate EXCEPT !.Limit = Value(h.Limit), !.Used = Value(h.Used)]
      ELSE [Limit     |-> Value(h.Limit),
            Used      |-> Value(h.Used),
            Remaining |-> Value(h.Remaining),
            Reset     |-> Value(h.Reset)]

\* The Rate part of newResponse: each field is read from its own header and
\* stays zero when the header is missing or is no number.
ParseRate(h) ==
  [Limit     |-> IF h.Limit # <<>> THEN Atoi(h.Limit) ELSE 0,
   Used      |-> IF h.Used # <<>> THEN Atoi(h.Used) ELSE 0,
   Remaining |-> IF h.Remaining # <<>> THEN Atoi(h.Remaining) ELSE 0,
   Reset     |-> IF h.Reset # <<>> THEN Atoi(h.Reset) ELSE 0]

\* The zero value of Pages.
ZeroPages == [First |-> 0, Prev |-> 0, Next |-> 0, Last |-> 0]

\* The fragments of a Link header that are no characters of the class
\* [\w\.:?&=/-] of the four patterns; every other fragment is made of
\* characters of the class.
LinkPunctuation == {"<", ">", "; rel=\"", "\"", ", ", ";", " ", "%", "+"}

InClass(fragment) == fragment \notin LinkPunctuation

\* [\w\.:?&=/-]+ and [\w\.:?&=/-]*, greedy: the number of fragments at
\* the head of rest that are of the class.
ClassLen(rest) ==
  LeadingLen(rest, {f \in {rest[n] : n \in 1..Len(rest)} : InClass(f)})

\* The places of the content of <...> where page=(\d+) can match: "page="
\* with a fragment before it and a digit after it.
PageStarts(content) ==
  {j \in 2..(Len(content) - 1) :
     content[j] = "page=" /\ content[j + 1] \in DigitChars}

FirstOf(places) == CHOOSE i \in places : \A n \in places : i <= n

LastOf(places) == CHOOSE m \in places : \A n \in places : n <= m

\* (\d+): the digits of the content that follow the place j.
Capture(content, j) ==
  SubSeq(content, j + 1,
         j + LeadingLen(SubSeq(content, j + 1, Len(content)), DigitChars))

\* >; rel="rel" after the k fragments of the content.
Closes(rest, k, rel) ==
  /\ Len(rest) >= k + 4
  /\ rest[k + 1] = ">"
  /\ rest[k + 2] = "; rel=\""
  /\ rest[k + 3] = rel
  /\ rest[k + 4] = "\""

\* The match in the content of a <...> that is closed or not.
MatchContent(closed, content) ==
  IF closed /\ PageStarts(content) # {}
    THEN [ok |-> TRUE, digits |-> Capture(content, LastOf(PageStarts(content)))]
    ELSE [ok |-> FALSE, digits |-> <<>>]

\* The match of a fragment and the fragments after it.
MatchRest(first, rest, rel) ==
  MatchContent(first = "<" /\ Closes(rest, ClassLen(rest), rel),
               SubSeq(rest, 1, ClassLen(rest)))

\* The match of <[\w\.:?&=/-]+page=(\d+)[\w\.:?&=/-]*>; rel="rel" that
\* starts at the fragment i of the header, [ok, digits]: the fragments
\* after "<" up to the next one outside the class are followed by ">" and
\* the relation; the first repetition is greedy, so of the fragments "page="
\* that have a fragment before them and a digit after them the last one is
\* taken, and the digits that follow it are captured.
MatchAt(link, i, rel) ==
  MatchRest(link[i], SubSeq(link, i + 1, Len(link)), rel)

\* The leftmost of the matches at the given places.
FirstMatch(link, at, rel) ==
  IF at = {} THEN [ok |-> FALSE, digits |-> <<>>]
  ELSE MatchAt(link, FirstOf(at), rel)

\* FindStringSubmatch: the digits captured by the leftmost match, <<>> when
\* the pattern matches nowhere.
FindPage(link, rel) ==
  FirstMatch(link, {i \in 1..Len(link) : MatchAt(link, i, rel).ok}, rel)

\* ParsePages with the four matches nested: a relation is looked for only
\* when the one before it was found.
ParsePagesStoppingAtFirstMiss(h) ==
  LET Page(rel) == Atoi(FindPage(h.Link, rel).digits)
      Found(rel) == FindPage(h.Link, rel).ok
  IN  IF h.Link = <<>> \/ ~Found("first") THEN ZeroPages
      ELSE IF ~Found("prev") THEN [ZeroPages EXCEPT !.First = Page("first")]
      ELSE IF ~Found("next")
        THEN [ZeroPages EXCEPT !.First = Page("first"), !.Prev = Page("prev")]
      ELSE [First |-> Page("first"), Prev |-> Page("prev"),
            Next |-> Page("next"),
            Last |-> IF Found("last") THEN Page("last") ELSE 0]

\* strconv.Atoi of the capture of a match; zero without a match.
PageNumber(m) == IF m.ok THEN Atoi(m.digits) ELSE 0

\* The Pages part of newResponse: each field is the page number of the entry
\* of its relation in the Link header, zero when the header is missing or
\* its pattern does not match.
ParsePages(h) ==
  LET Page(rel) == PageNumber(FindPage(h.Link, rel))
  IN  IF h.Link = <<>> THEN ZeroPages
      ELSE [First |-> Page("first"), Prev |-> Page("prev"),
            Next |-> Page("next"), Last |-> Page("last")]

\* newResponse: the envelope of a transport response, with the Pages and the
\* Rate of its headers.
newResponse(resp) ==
  [type |-> "Response", Response |-> resp, Rate |-> ParseRate(resp.Header),
   Pages |-> ParsePages(resp.Header)]

\* Epoch.Time and time.Time.Before: whether the instant t lies before the
\* reset time of the rate.
BeforeReset(t, rate) == t < rate.Reset

\* ------------------------------------------------------------------------
\* Errors (the typed errors of the package and the errors of the libraries)
\* ------------------------------------------------------------------------

\* json.Unmarshal(b, respErr) with its error dropped: the message and the
\* documentation URL of a JSON object, nothing of any other body.
UnmarshalResponseError(b) ==
  IF b.kind = "object"
    THEN [Message |-> b.message, DocumentationURL |-> b.documentation_url]
    ELSE [Message |-> "", DocumentationURL |-> <<>>]

ResponseError(resp, parsed) ==
  [type |-> "ResponseError", Response |-> resp,
   Message |-> parsed.Message, DocumentationURL |-> parsed.DocumentationURL]

\* AuthError that drops the error it is built with.
AuthErrorWithoutCause(e) == [type |-> "AuthError", err |-> Nil]

AuthError(e) == [type |-> "AuthError", err |-> e]

RateLimitError(e, request, rate) ==
  [type |-> "RateLimitError", err |-> e, Request |-> request, Rate |-> rate]

RateLimitAbuseError(e, rate, retryAfter) ==
  [type |-> "RateLimitAbuseError", err |-> e, Rate |-> rate,
   RetryAfter |-> retryAfter]

NotFoundError(e) == [type |-> "NotFoundError", err |-> e]

\* Unwrap of AuthError, RateLimitError, RateLimitAbuseError and
\* NotFoundError: the err field, nil when the error wraps nothing.
Unwrap(e) == e.err

\* Errors of the libraries the package calls.
TransportError == [type |-> "TransportError"]
URLError == [type |-> "url.Error"]
MarshalError == [type |-> "json.UnsupportedTypeError"]
NilContextError == [type |-> "net/http: nil Context"]
SyntaxError == [type |-> "json.SyntaxError"]
UnmarshalTypeError == [type |-> "json.UnmarshalTypeError"]
WriteError == [type |-> "io.WriteError"]

TypedErrors ==
  {"ResponseError", "AuthError", "RateLimitError", "RateLimitAbuseError",
   "NotFoundError"}

\* ResponseErrorString with the host in front of the path.
ResponseErrorStringWithHost(e) ==
  <<e.Response.Request.Method, " ", e.Response.Request.URL.Host>>
    \o e.Response.Request.URL.Path
    \o <<": ">> \o Itoa(e.Response.StatusCode) \o <<" ", e.Message>>

\* (*ResponseError).Error: "<method> <path>: <status> <message>".
ResponseErrorString(e) ==
  <<e.Response.Request.Method, " ">> \o e.Response.Request.URL.Path
    \o <<": ">> \o Itoa(e.Response.StatusCode) \o <<" ", e.Message>>

\* Error of AuthError, RateLimitAbuseError and NotFoundError, each with its
\* own text when it wraps nothing, and of ResponseError.
ErrorString(e) ==
  CASE e.type = "ResponseError" -> ResponseErrorString(e)
    [] e.type = "AuthError" ->
         IF e.err = Nil THEN <<"requires authentication">>
         ELSE ResponseErrorString(e.err)
    [] e.type = "RateLimitAbuseError" ->
         IF e.err = Nil THEN <<"rate limit is abused">>
         ELSE ResponseErrorString(e.err)
    [] e.type = "NotFoundError" ->
         IF e.err = Nil THEN <<"resource not found">>
         ELSE ResponseErrorString(e.err)

\* ------------------------------------------------------------------------
\* The request builder (client.go NewRequest)
\* ------------------------------------------------------------------------

publicAPIURL == "https://api.github.com"
publicUploadURL == "https://uploads.github.com"
publicDownloadURL == "https://github.com"

\* The index of the first x in s, 0 if there is none.
RECURSIVE IndexOf(_, _)
IndexOf(s, x) ==
  IF s = <<>> THEN 0
  ELSE IF s[1] = x THEN 1
  ELSE LET i == IndexOf(Tail(s), x) IN IF i = 0 THEN 0 ELSE i + 1

\* url.Parse: a reference is a path and, after the first "?", a raw query.
PathOf(url) ==
  LET i == IndexOf(url, "?") IN IF i = 0 THEN url ELSE SubSeq(url, 1, i - 1)

RawQueryOf(url) ==
  LET i == IndexOf(url, "?")
  IN  IF i = 0 THEN <<>> ELSE SubSeq(url, i + 1, Len(url))

\* strings.Split(s, sep) for a separator of one fragment.
RECURSIVE Split(_, _)
Split(s, sep) ==
  LET i == IndexOf(s, sep)
  IN  IF i = 0 THEN <<s>>
      ELSE <<SubSeq(s, 1, i - 1)>> \o Split(SubSeq(s, i + 1, Len(s)), sep)

\* URL.Query(): the pairs of the raw query in their order; an empty piece
\* is skipped and a piece is cut at its first "=".
ParseQuery(raw) ==
  LET pieces == SelectSeq(Split(raw, "&"), LAMBDA piece : piece # <<>>)
      Pair(piece) ==
        LET i == IndexOf(piece, "=")
        IN  [key   |-> IF i = 0 THEN piece ELSE SubSeq(piece, 1, i - 1),
             value |-> IF i = 0 THEN <<>> ELSE SubSeq(piece, i + 1, Len(piece))]
  IN  [k \in 1..Len(pieces) |-> Pair(pieces[k])]

\* Values.Add
Add(values, key, value) == Append(values, [key |-> key, value |-> value])

\* The keys of the queries of the package, in the order of sort.Strings.
SortedKeys ==
  <<<<"label">>, <<"name">>, <<"page">>, <<"per_page">>, <<"state">>>>

\* Values.Encode: "key=value" for every pair, sorted by key and joined
\* by "&"; the values of one key keep their order.
RECURSIVE EncodeFrom(_, _)
EncodeFrom(values, k) ==
  IF k > Len(SortedKeys) THEN <<>>
  ELSE SelectSeq(values, LAMBDA pair : pair.key = SortedKeys[k])
         \o EncodeFrom(values, k + 1)

RECURSIVE JoinPairs(_)
JoinPairs(pairs) ==
  IF pairs = <<>> THEN <<>>
  ELSE pairs[1].key \o <<"=">> \o pairs[1].value
         \o (IF Len(pairs) > 1 THEN <<"&">> ELSE <<>>)
         \o JoinPairs(Tail(pairs))

Encode(values) == JoinPairs(EncodeFrom(values, 1))

\* A non-nil context.
Background == [type |-> "Context"]

\* NewRequest built with http.NewRequest, which takes no context and so
\* does not refuse a nil one.
NewRequestWithoutContext(base, token, ctx, method, url, body) ==
  IF HasPrefix(url, <<":">>) THEN [req |-> Nil, err |-> URLError]
  ELSE IF body = "unencodable" THEN [req |-> Nil, err |-> MarshalError]
  ELSE [req |->
          [type   |-> "Request",
           Method |-> method,
           URL    |-> [Host |-> base, Path |-> PathOf(url),
                       RawQuery |-> RawQueryOf(url)],
           Header |->
             [UserAgent     |-> userAgent,
              Accept        |-> mediaTypeV3,
              Authorization |-> IF token # "" THEN <<"token ", token>> ELSE <<>>,
              ContentType   |-> IF body # "nil" THEN mediaJSON ELSE ""]],
        err |-> Nil]

\* NewRequest: [req, err]. The relative URL is resolved against the API base
\* (a reference that starts with a colon does not parse), a body that is no
\* reader is JSON-encoded, and http.NewRequestWithContext refuses a nil
\* context. The request bodies are "nil", "reader", "value" (encodable) and
\* "unencodable".
NewRequest(base, token, ctx, method, url, body) ==
  IF HasPrefix(url, <<":">>) THEN [req |-> Nil, err |-> URLError]
  ELSE IF body = "unencodable" THEN [req |-> Nil, err |-> MarshalError]
  ELSE IF ctx = Nil THEN [req |-> Nil, err |-> NilContextError]
  ELSE [req |->
          [type   |-> "Request",
           Method |-> method,
           URL    |-> [Host |-> base, Path |-> PathOf(url),
                       RawQuery |-> RawQueryOf(url)],
           Header |->
             [UserAgent     |-> userAgent,
              Accept        |-> mediaTypeV3,
              Authorization |-> IF token # "" THEN <<"token ", token>> ELSE <<>>,
              ContentType   |-> IF body # "nil" THEN mediaJSON ELSE ""]],
        err |-> Nil]

\* NewPageRequest that adds the parameters when they are not negative.
NewPageRequestFromZero(base, token, ctx, method, url, pageSize, pageNo, body) ==
  LET built == NewRequest(base, token, ctx, method, url, body)
      q0 == ParseQuery(built.req.URL.RawQuery)
      q1 == IF pageSize >= 0 THEN Add(q0, <<"per_page">>, Itoa(pageSize))
            ELSE q0
      q2 == IF pageNo >= 0 THEN Add(q1, <<"page">>, Itoa(pageNo)) ELSE q1
  IN  IF built.err # Nil THEN [req |-> Nil, err |-> built.err]
      ELSE [req |-> [built.req EXCEPT !.URL.RawQuery = Encode(q2)],
            err |-> Nil]

\* NewPageRequest: the request of NewRequest, with per_page and page added
\* to its query when positive and the query encoded again.
NewPageRequest(base, token, ctx, method, url, pageSize, pageNo, body) ==
  LET built == NewRequest(base, token, ctx, method, url, body)
      q0 == ParseQuery(built.req.URL.RawQuery)
      q1 == IF pageSize > 0 THEN Add(q0, <<"per_page">>, Itoa(pageSize))
            ELSE q0
      q2 == IF pageNo > 0 THEN Add(q1, <<"page">>, Itoa(pageNo)) ELSE q1
  IN  IF built.err # Nil THEN [req |-> Nil, err |-> built.err]
      ELSE [req |-> [built.req EXCEPT !.URL.RawQuery = Encode(q2)],
            err |-> Nil]

\* Errors of the file system.
OpenError == [type |-> "os.PathError", Op |-> "open"]
StatError == [type |-> "os.PathError", Op |-> "stat"]
ReadError == [type |-> "os.PathError", Op |-> "read"]
SeekError == [type |-> "os.PathError", Op |-> "seek"]
EOF == [type |-> "io.EOF"]

\* The files a caller names: one that cannot be opened, ones on which Stat,
\* Read or Seek fails, one without content, and one that can be read.
Files == {"missing", "nostat", "noread", "empty", "noseek", "ok"}

\* The handle of an open file.
FileHandle == [type |-> "os.File"]

\* http.DetectContentType on the head of the file.
detectedMediaType == "application/octet-stream"

\* The number of bytes of a file.
FileSize(f) == IF f = "empty" THEN 0 ELSE 512

\* NewUploadRequest without the Close before the return on a failed Seek.
NewUploadRequestLeakingOnSeek(base, token, ctx, url, f) ==
  IF HasPrefix(url, <<":">>)
    THEN [req |-> Nil, closer |-> Nil, err |-> URLError, file |-> "none"]
  ELSE IF f = "missing"
    THEN [req |-> Nil, closer |-> Nil, err |-> OpenError, file |-> "none"]
  ELSE IF f = "nostat"
    THEN [req |-> Nil, closer |-> Nil, err |-> StatError, file |-> "closed"]
  ELSE IF f = "noread"
    THEN [req |-> Nil, closer |-> Nil, err |-> ReadError, file |-> "closed"]
  ELSE IF f = "empty"
    THEN [req |-> Nil, closer |-> Nil, err |-> EOF, file |-> "closed"]
  ELSE IF f = "noseek"
    THEN [req |-> Nil, closer |-> Nil, err |-> SeekError, file |-> "open"]
  ELSE IF ctx = Nil
    THEN [req |-> Nil, closer |-> Nil, err |-> NilContextError,
          file |-> "closed"]
  ELSE [req |->
          [type   |-> "Request",
           Method |-> "POST",
           URL    |-> [Host |-> base, Path |-> PathOf(url),
                       RawQuery |-> RawQueryOf(url)],
           ContentLength |-> FileSize(f),
           Header |->
             [UserAgent     |-> userAgent,
              Accept        |-> mediaTypeV3,
              Authorization |-> IF token # "" THEN <<"token ", token>> ELSE <<>>,
              ContentType   |-> detectedMediaType]],
        closer |-> FileHandle, err |-> Nil, file |-> "open"]

\* NewUploadRequest: [req, closer, err] and, in file, what became of the
\* file: "none" if it was not opened, "closed" if it was opened and closed
\* again, "open" if its handle is still open. The URL is resolved against
\* the upload base, the file is opened, its size is taken, its head is read
\* (the read of a file without content fails with io.EOF), its offset is
\* reset, and http.NewRequestWithContext refuses a nil context.
NewUploadRequest(base, token, ctx, url, f) ==
  IF HasPrefix(url, <<":">>)
    THEN [req |-> Nil, closer |-> Nil, err |-> URLError, file |-> "none"]
  ELSE IF f = "missing"
    THEN [req |-> Nil, closer |-> Nil, err |-> OpenError, file |-> "none"]
  ELSE IF f = "nostat"
    THEN [req |-> Nil, closer |-> Nil, err |-> StatError, file |-> "closed"]
  ELSE IF f = "noread"
    THEN [req |-> Nil, closer |-> Nil, err |-> ReadError, file |-> "closed"]
  ELSE IF f = "empty"
    THEN [req |-> Nil, closer |-> Nil, err |-> EOF, file |-> "closed"]
  ELSE IF f = "noseek"
    THEN [req |-> Nil, closer |-> Nil, err |-> SeekError, file |-> "closed"]
  ELSE IF ctx = Nil
    THEN [req |-> Nil, closer |-> Nil, err |-> NilContextError,
          file |-> "closed"]
  ELSE [req |->
          [type   |-> "Request",
           Method |-> "POST",
           URL    |-> [Host |-> base, Path |-> PathOf(url),
                       RawQuery |-> RawQueryOf(url)],
           ContentLength |-> FileSize(f),
           Header |->
             [UserAgent     |-> userAgent,
              Accept        |-> mediaTypeV3,
              Authorization |-> IF token # "" THEN <<"token ", token>> ELSE <<>>,
              ContentType   |-> detectedMediaType]],
        closer |-> FileHandle, err |-> Nil, file |-> "open"]

\* NewDownloadRequest with the Accept header of the API requests.
NewDownloadRequestWithAccept(base, token, ctx, url) ==
  IF HasPrefix(url, <<":">>) THEN [req |-> Nil, err |-> URLError]
  ELSE IF ctx = Nil THEN [req |-> Nil, err |-> NilContextError]
  ELSE [req |->
          [type   |-> "Request",
           Method |-> "GET",
           URL    |-> [Host |-> base, Path |-> PathOf(url),
                       RawQuery |-> RawQueryOf(url)],
           Header |->
             [UserAgent     |-> userAgent,
              Accept        |-> mediaTypeV3,
              Authorization |-> IF token # "" THEN <<"token ", token>> ELSE <<>>,
              ContentType   |-> ""]],
        err |-> Nil]

\* NewDownloadRequest: a GET against the download base that carries the
\* User-Agent and, with a token, the Authorization header only.
NewDownloadRequest(base, token, ctx, url) ==
  IF HasPrefix(url, <<":">>) THEN [req |-> Nil, err |-> URLError]
  ELSE IF ctx = Nil THEN [req |-> Nil, err |-> NilContextError]
  ELSE [req |->
          [type   |-> "Request",
           Method |-> "GET",
           URL    |-> [Host |-> base, Path |-> PathOf(url),
                       RawQuery |-> RawQueryOf(url)],
           Header |->
             [UserAgent     |-> userAgent,
              Accept        |-> "",
              Authorization |-> IF token # "" THEN <<"token ", token>> ELSE <<>>,
              ContentType   |-> ""]],
        err |-> Nil]

\* The part of a service operation before Do, [req, err, file]: the request
\* is built; an upload adds the name of the file and, if there is one, the
\* label to the query; a download opens the file it writes to; EnsureScopes
\* asks for the head of /user.
ServiceRequest(token, call) ==
  CASE call.op = "plain" ->
         LET built == NewRequest(publicAPIURL, token, call.ctx, call.method,
                                 call.url, call.body)
         IN  [req |-> built.req, err |-> built.err, file |-> "none"]
    [] call.op = "page" ->
         LET built == NewPageRequest(publicAPIURL, token, call.ctx,
                                     call.method, call.url, call.pageSize,
                                     call.pageNo, call.body)
         IN  [req |-> built.req, err |-> built.err, file |-> "none"]
    [] call.op = "upload" ->
         LET built == NewUploadRequest(publicUploadURL, token, call.ctx,
                                       call.url, call.file)
             q0 == Add(ParseQuery(built.req.URL.RawQuery), <<"name">>,
                       <<call.file>>)
             q1 == IF call.label # <<>> THEN Add(q0, <<"label">>, call.label)
                   ELSE q0
         IN  IF built.err # Nil
               THEN [req |-> Nil, err |-> built.err, file |-> built.file]
               ELSE [req |-> [built.req EXCEPT !.URL.RawQuery = Encode(q1)],
                     err |-> Nil, file |-> built.file]
    [] call.op = "scopes" ->
         LET built == NewRequest(publicAPIURL, token, call.ctx, "HEAD",
                                 <<"/user">>, "nil")
         IN  [req |-> built.req, err |-> built.err, file |-> "none"]
    [] call.op = "download" ->
         LET built == NewDownloadRequest(publicDownloadURL, token, call.ctx,
                                         call.url)
         IN  IF built.err # Nil
               THEN [req |-> Nil, err |-> built.err, file |-> "none"]
             ELSE IF call.file = "missing"
               THEN [req |-> built.req, err |-> OpenError, file |-> "none"]
             ELSE [req |-> built.req, err |-> Nil, file |-> "open"]

\* ------------------------------------------------------------------------
\* The steps of Do (client.go Do)
\* ------------------------------------------------------------------------

\* RateBlocked without its comparison of the clock with the reset time.
RateBlockedIgnoringReset(ok, rate, t) == ok /\ rate.Remaining = 0

\* The rate check of Do: the cached entry forbids the call.
RateBlocked(ok, rate, t) == ok /\ rate.Remaining = 0 /\ BeforeReset(t, rate)

\* m[g] with the zero value for a missing key, as a Go map read gives it.
MapGet(m, g) == IF g \in DOMAIN m THEN m[g] ELSE ZeroRate

\* MapSet that replaces the whole map by the one entry.
MapSetAlone(m, g, rate) == [x \in {g} |-> rate]

\* MapSet that keeps an entry the map already holds.
MapSetIfMissing(m, g, rate) ==
  [x \in DOMAIN m \cup {g} |-> IF x \in DOMAIN m THEN m[x] ELSE rate]

\* c.rates[g] = rate
MapSet(m, g, rate) ==
  [x \in DOMAIN m \cup {g} |-> IF x = g THEN rate ELSE m[x]]

\* isSuccess that knows 200 only.
isSuccessOnlyOK(statusCode) == statusCode = StatusOK

isSuccess(statusCode) ==
  \/ statusCode = StatusOK
  \/ statusCode = StatusCreated
  \/ statusCode = StatusNoContent

\* MapForbidden with its two branches in the other order.
MapForbiddenAbuseFirst(request, r, resp, respErr) ==
  IF HasSuffix(respErr.DocumentationURL, abuseMarker)
    THEN RateLimitAbuseError(respErr, resp.Rate,
                             ParseDuration(r.Header.RetryAfter \o <<"s">>))
  ELSE IF r.Header.Remaining = <<"0">>
    THEN RateLimitError(respErr, request, resp.Rate)
  ELSE Nil

\* MapForbidden with the ResponseError returned when neither branch applies.
MapForbiddenReturningError(request, r, resp, respErr) ==
  IF r.Header.Remaining = <<"0">>
    THEN RateLimitError(respErr, request, resp.Rate)
  ELSE IF HasSuffix(respErr.DocumentationURL, abuseMarker)
    THEN RateLimitAbuseError(respErr, resp.Rate,
                             ParseDuration(r.Header.RetryAfter \o <<"s">>))
  ELSE respErr

\* The case http.StatusForbidden of the switch of Do: an exhausted quota, an
\* abuse of the rate limit, or Nil when neither branch returns.
MapForbidden(request, r, resp, respErr) ==
  IF r.Header.Remaining = <<"0">>
    THEN RateLimitError(respErr, request, resp.Rate)
  ELSE IF HasSuffix(respErr.DocumentationURL, abuseMarker)
    THEN RateLimitAbuseError(respErr, resp.Rate,
                             ParseDuration(r.Header.RetryAfter \o <<"s">>))
  ELSE Nil

\* The switch of Do over the status of a non-success response: the error to
\* return, or Nil when no case returns.
MapError(request, r, resp, respErr) ==
  CASE r.StatusCode = StatusBadRequest -> respErr
    [] r.StatusCode = StatusUnauthorized -> AuthError(respErr)
    [] r.StatusCode = StatusForbidden -> MapForbidden(request, r, resp, respErr)
    [] r.StatusCode = StatusNotFound -> NotFoundError(respErr)
    [] OTHER -> respErr

\* What is left of the body stream: ioutil.ReadAll in the error mapping
\* leaves nothing ("Restore response body" is commented out).
EmptyBody == [kind |-> "empty", message |-> "", documentation_url |-> <<>>]

\* ReadBody that returns the io.EOF of the decoder of an empty body.
ReadBodyReturningEOF(sinkKind, content, writeOk) ==
  IF sinkKind = "nil" THEN [err |-> Nil, sunk |-> Nil]
  ELSE IF sinkKind = "writer" THEN
    IF content.kind = "empty" THEN [err |-> Nil, sunk |-> Nil]
    ELSE IF writeOk THEN [err |-> Nil, sunk |-> content]
    ELSE [err |-> WriteError, sunk |-> Nil]
  ELSE
    CASE content.kind = "empty" -> [err |-> EOF, sunk |-> Nil]
      [] content.kind = "malformed" -> [err |-> SyntaxError, sunk |-> Nil]
      [] content.kind = "array" -> [err |-> UnmarshalTypeError, sunk |-> Nil]
      [] OTHER -> [err |-> Nil, sunk |-> content]

\* The body step of Do: [err, sunk] for a sink ("nil", "writer" or "json"),
\* the content left in the stream, and whether the writer accepts a write.
\* sunk is what the sink has received, Nil if nothing.
ReadBody(sinkKind, content, writeOk) ==
  IF sinkKind = "nil" THEN [err |-> Nil, sunk |-> Nil]
  ELSE IF sinkKind = "writer" THEN
    IF content.kind = "empty" THEN [err |-> Nil, sunk |-> Nil]
    ELSE IF writeOk THEN [err |-> Nil, sunk |-> content]
    ELSE [err |-> WriteError, sunk |-> Nil]
  ELSE
    CASE content.kind = "empty" -> [err |-> Nil, sunk |-> Nil]
      [] content.kind = "malformed" -> [err |-> SyntaxError, sunk |-> Nil]
      [] content.kind = "array" -> [err |-> UnmarshalTypeError, sunk |-> Nil]
      [] OTHER -> [err |-> Nil, sunk |-> content]

\* CheckAndRead that returns the envelope together with the error of the
\* body step.
CheckAndReadKeepingEnvelope(request, sinkKind, r, writeOk) ==
  LET resp == newResponse(r)
      respErr == ResponseError(r, UnmarshalResponseError(r.Body))
      mapped == IF isSuccess(r.StatusCode) THEN Nil
                ELSE MapError(request, r, resp, respErr)
      left == IF isSuccess(r.StatusCode) THEN r.Body ELSE EmptyBody
      read == ReadBody(sinkKind, left, writeOk)
  IN  IF mapped # Nil THEN [resp |-> Nil, err |-> mapped, sunk |-> Nil]
      ELSE [resp |-> resp, err |-> read.err, sunk |-> read.sunk]

\* Do from the status check to its return: [resp, err, sunk].
CheckAndRead(request, sinkKind, r, writeOk) ==
  LET resp == newResponse(r)
      respErr == ResponseError(r, UnmarshalResponseError(r.Body))
      mapped == IF isSuccess(r.StatusCode) THEN Nil
                ELSE MapError(request, r, resp, respErr)
      left == IF isSuccess(r.StatusCode) THEN r.Body ELSE EmptyBody
      read == ReadBody(sinkKind, left, writeOk)
  IN  IF mapped # Nil THEN [resp |-> Nil, err |-> mapped, sunk |-> Nil]
      ELSE IF read.err # Nil THEN [resp |-> Nil, err |-> read.err, sunk |-> Nil]
      ELSE [resp |-> resp, err |-> Nil, sunk |-> read.sunk]

\* DrainAndClose without the Close.
DrainOnly(b) == [open |-> b.open, drained |-> TRUE]

\* The deferred function of Do: the body is read to its end and closed.
DrainAndClose(b) == [open |-> FALSE, drained |-> TRUE]

\* strings.Contains: sub occurs in s.
Contains(s, sub) ==
  \E i \in 1..(Len(s) - Len(sub) + 1) : SubSeq(s, i, i + Len(sub) - 1) = sub

\* fmt.Errorf("access token does not have the scope: %s", scope)
ScopeError(scope) ==
  [type |-> "fmt.Errorf",
   text |-> <<"access token does not have the scope: ">> \o scope]

\* The part of EnsureScopes after Do: the error of Do, or the error that
\* names the first scope that does not occur in the X-OAuth-Scopes header of
\* the response, or nil.
RECURSIVE EnsureScopes(_, _, _)
EnsureScopes(resp, err, scopes) ==
  IF err # Nil THEN err
  ELSE IF scopes = <<>> THEN Nil
  ELSE IF ~Contains(resp.Response.Header.Scopes, scopes[1])
    THEN ScopeError(scopes[1])
  ELSE EnsureScopes(resp, Nil, Tail(scopes))

\* The return of a service operation (user.go User) from what Do returned:
\* [entity, resp, err].
ServiceReturn(resp, err, entity) ==
  IF err # Nil THEN [entity |-> Nil, resp |-> Nil, err |-> err]
  ELSE [entity |-> entity, resp |-> resp, err |-> Nil]

\* ------------------------------------------------------------------------
\* Inputs
\* ------------------------------------------------------------------------

\* The goroutines that call the client.
Callers == {"c1", "c2"}

\* The goroutines of the sequential specifications.
OneCaller == {"c1"}

NoCaller == "none"

\* The arguments of a service operation. A plain operation (UsersService.Get)
\* builds its request with NewRequest.
Call(ctx, method, url, body, sinkKind) ==
  [body |-> body, url |-> url, ctx |-> ctx, method |-> method,
   pageSize |-> 0, pageNo |-> 0, file |-> "none", op |-> "plain",
   label |-> <<>>, scopes |-> <<>>, sink |-> sinkKind]

\* A paginated operation (RepoService.Commits, which gives no body).
PageCall(ctx, url, pageSize, pageNo, body) ==
  [body |-> body, url |-> url, ctx |-> ctx, method |-> "GET",
   pageSize |-> pageSize, pageNo |-> pageNo, file |-> "none", op |-> "page",
   label |-> <<>>, scopes |-> <<>>, sink |-> "json"]

\* RepoService.UploadReleaseAsset
UploadCall(ctx, url, assetFile, assetLabel) ==
  [body |-> "nil", url |-> url, ctx |-> ctx, method |-> "POST",
   pageSize |-> 0, pageNo |-> 0, file |-> assetFile, op |-> "upload",
   label |-> assetLabel, scopes |-> <<>>, sink |-> "json"]

\* Client.EnsureScopes
ScopesCall(ctx, scopes) ==
  [body |-> "nil", url |-> <<"/user">>, ctx |-> ctx, method |-> "HEAD",
   pageSize |-> 0, pageNo |-> 0, file |-> "none", op |-> "scopes",
   label |-> <<>>, scopes |-> scopes, sink |-> "nil"]

\* RepoService.DownloadReleaseAsset
DownloadCall(ctx, url, outFile) ==
  [body |-> "nil", url |-> url, ctx |-> ctx, method |-> "GET",
   pageSize |-> 0, pageNo |-> 0, file |-> outFile, op |-> "download",
   label |-> <<>>, scopes |-> <<>>, sink |-> "writer"]

\* Calls whose request cannot be built.
BadCalls ==
  {Call(Nil, "GET", <<"/user">>, "nil", "json"),
   Call(Background, "GET", <<":", "/user">>, "nil", "json"),
   Call(Background, "POST", <<"/user">>, "unencodable", "json")}

\* One call per rate group.
GroupCalls ==
  {Call(Background, "GET", <<"/user">>, "nil", "json"),
   Call(Background, "GET", <<"/search", "/code">>, "nil", "json"),
   Call(Background, "POST", <<"/graphql">>, "value", "json")}

\* One call per kind of sink.
SinkCalls ==
  {Call(Background, "GET", <<"/user">>, "nil", sk) : sk \in {"nil", "writer", "json"}}

Statuses ==
  {StatusOK, StatusCreated, StatusAccepted, StatusNoContent, StatusBadRequest,
   StatusUnauthorized, StatusForbidden, StatusNotFound,
   StatusInternalServerError}

docURL == <<"https://docs.github.com/rest">>

Bodies ==
  {EmptyBody,
   [kind |-> "malformed", message |-> "", documentation_url |-> <<>>],
   [kind |-> "array", message |-> "", documentation_url |-> <<>>],
   [kind |-> "object", message |-> "Not Found", documentation_url |-> docURL],
   [kind |-> "object", message |-> "Abuse",
    documentation_url |-> docURL \o abuseMarker],
   [kind |-> "object", message |-> "Abuse",
    documentation_url |-> docURL \o abuseMarker \o <<"-faq">>]}

RateHeader(limit, used, remaining, reset) ==
  [Limit |-> limit, Used |-> used, Remaining |-> remaining, Reset |-> reset]

\* The rate-limit headers of the headers of a response.
RateHeaderOf(h) == RateHeader(h.Limit, h.Used, h.Remaining, h.Reset)

\* The history m with the rate-limit headers of h as the last of group g.
Remember(m, g, h) ==
  [x \in DOMAIN m \cup {g} |-> IF x = g THEN RateHeaderOf(h) ELSE m[x]]

\* The rate-limit headers a server sends: none, a quota with calls left, an
\* exhausted quota, an exhausted quota without its reset time, and a
\* Remaining header that is no number.
RateHeaders ==
  {RateHeader(<<>>, <<>>, <<>>, <<>>),
   RateHeader(<<"6", "0">>, <<"5", "3">>, <<"7">>, <<"2">>),
   RateHeader(<<"6", "0">>, <<"6", "0">>, <<"0">>, <<"2">>),
   RateHeader(<<"6", "0">>, <<>>, <<"0">>, <<>>),
   RateHeader(<<"6", "0">>, <<>>, <<"x">>, <<"2">>)}

RetryAfters == {<<>>, <<"3", "0">>, <<"1", "m">>, <<"x">>}

HTTPResponse(status, rateHeader, retryAfter, content) ==
  [type |-> "http.Response",
   Header |-> [Limit |-> rateHeader.Limit, Used |-> rateHeader.Used,
               Remaining |-> rateHeader.Remaining, Reset |-> rateHeader.Reset,
               Link |-> <<>>, RetryAfter |-> retryAfter, Scopes |-> <<>>],
   StatusCode |-> status,
   Body |-> content]

\* The responses of the server in the specification of the tracker.
TrackerResponses ==
  {HTTPResponse(s, h, <<>>, b) :
     s \in {StatusOK, StatusForbidden, StatusInternalServerError},
     h \in RateHeaders,
     b \in {bb \in Bodies : bb.kind \in {"empty", "malformed"}}}

\* The responses of the server in the specification of the outcome of Do: a
\* Retry-After header comes with a 403 response only.
OutcomeResponses ==
  {HTTPResponse(s, h, <<>>, b) :
     s \in Statuses \ {StatusForbidden}, h \in RateHeaders, b \in Bodies}
  \cup
  {HTTPResponse(StatusForbidden, h, a, b) :
     h \in RateHeaders, a \in RetryAfters, b \in Bodies}

\* The calls and the responses of the specification of concurrent callers:
\* two rate groups, and responses that differ in status and in Remaining.
ConcCalls ==
  {Call(Background, "GET", <<"/user">>, "nil", "json"),
   Call(Background, "GET", <<"/search", "/code">>, "nil", "json")}

ConcResponses ==
  {HTTPResponse(s, h, <<>>, EmptyBody) :
     s \in {StatusOK, StatusNotFound},
     h \in {RateHeader(<<"6", "0">>, <<"5", "3">>, <<"7">>, <<"2">>),
            RateHeader(<<"6", "0">>, <<"6", "0">>, <<"0">>, <<"2">>)}}

\* The responses of the specification of fair scheduling.
LiveResponses == {resp \in ConcResponses : resp.StatusCode = StatusOK}

\* The access tokens of a client: none, or one.
Tokens == {"", "secret"}

\* A relative URL that does not parse, one without a query, and one with a
\* query whose keys are not in sorted order.
BadURL == <<":", "/repos">>
RepoURL == <<"/repos", "/commits">>
RepoQueryURL ==
  <<"/repos", "/pulls", "?", "state", "=", "open", "&", "label", "=", "bug">>

PageSizes == {-1, 0, 1, 30}
PageNos == {-1, 0, 2, 10}

\* The calls of the specification of the builders: every builder, with
\* arguments that make it fail at each of its steps and ones that do not.
PlainCalls ==
  {Call(ctx, "POST", u, b, "json") :
     ctx \in {Nil, Background}, u \in {<<"/user">>, BadURL},
     b \in {"nil", "reader", "value", "unencodable"}}

PageCalls ==
  {PageCall(ctx, u, s, n, b) :
     ctx \in {Nil, Background}, u \in {RepoURL, RepoQueryURL, BadURL},
     s \in PageSizes, n \in PageNos, b \in {"nil", "value"}}

UploadCalls ==
  {UploadCall(ctx, u, f, l) :
     ctx \in {Nil, Background}, u \in {<<"/repos", "/assets">>, BadURL},
     f \in Files, l \in {<<>>, <<"notes">>}}

DownloadCalls ==
  {DownloadCall(ctx, u, f) :
     ctx \in {Nil, Background}, u \in {<<"/releases", "/download">>, BadURL},
     f \in {"missing", "ok"}}

\* The responses of the specification of the builders: success and failure,
\* with and without quota left, bodies that decode and bodies that do not.
BuildResponses ==
  {HTTPResponse(s, h, <<>>, b) :
     s \in {StatusOK, StatusNotFound},
     h \in {RateHeader(<<"6", "0">>, <<"5", "3">>, <<"7">>, <<"2">>),
            RateHeader(<<"6", "0">>, <<"6", "0">>, <<"0">>, <<"2">>)},
     b \in {bb \in Bodies : bb.kind \in {"empty", "malformed"}}}

\* The names of OAuth scopes, in the pieces that one name shares with
\* another: "repo" is a part of "public_repo" and of "repo:status".
ScopeRepo == <<"repo">>

ScopeRepoStatus == <<"repo", ":status">>

ScopePublicRepo == <<"public_", "repo">>

ScopeUser == <<"user">>

ScopeUserEmail == <<"user", ":email">>

ScopeGist == <<"gist">>

\* The scopes that a caller asks for.
RequestedScopes == {ScopeRepo, ScopeUser, ScopeGist, ScopePublicRepo}

\* The values of the X-OAuth-Scopes header: the scopes of the token, joined
\* by ", ".
ScopeHeaders ==
  {<<>>, ScopeRepo, ScopePublicRepo, ScopeRepoStatus,
   ScopeRepo \o <<", ">> \o ScopeUser,
   ScopePublicRepo \o <<", ">> \o ScopeUserEmail,
   ScopeGist \o <<", ">> \o ScopeUser}

\* The calls of EnsureScopes: no scope, one scope, two scopes.
ScopesCalls ==
  {ScopesCall(ctx, s) :
     ctx \in {Nil, Background},
     s \in {<<>>} \cup {<<a>> : a \in RequestedScopes}
           \cup {<<a, b>> : a \in RequestedScopes, b \in RequestedScopes}}

\* The answers to HEAD /user: with the header of the scopes, successful or
\* not.
ScopesResponses ==
  {[type |-> "http.Response",
    Header |-> [Limit |-> <<"6", "0">>, Used |-> <<"1">>,
                Remaining |-> <<"5", "9">>, Reset |-> <<"9">>,
                Link |-> <<>>, RetryAfter |-> <<>>, Scopes |-> h],
    StatusCode |-> s,
    Body |-> EmptyBody] :
     s \in {StatusOK, StatusUnauthorized, StatusForbidden},
     h \in ScopeHeaders}

\* The requests of the specification of getRateGroup: hosts, paths, queries
\* and methods that name the groups in every place of a request.
GroupHosts ==
  {publicAPIURL, "https://search.example.com", "https://graphql.example.com"}

GroupPaths ==
  {<<>>, <<"/user">>, <<"/search">>, <<"/search", "/code">>,
   <<"/search", "able">>, <<"/graphql">>, <<"/graphql", "/v2">>,
   <<"/api", "/search">>, <<"/repos", "/graphql">>}

GroupQueries ==
  {<<>>, <<"q", "=", "/search">>, <<"path", "=", "/graphql">>}

GroupRequests ==
  {[type |-> "Request", Method |-> m,
    URL |-> [Host |-> h, Path |-> p, RawQuery |-> q]] :
     m \in {"GET", "POST"}, h \in GroupHosts, p \in GroupPaths,
     q \in GroupQueries}

\* The relations of a Link header and the page each of them points to.
Relations == <<"first", "prev", "next", "last">>

PageOf(rel) ==
  CASE rel = "first" -> <<"1">>
    [] rel = "prev" -> <<"2">>
    [] rel = "next" -> <<"4">>
    [] rel = "last" -> <<"1", "2">>

\* The entry of a relation in a Link header: absent; plain, <url?page=N>;
\* rel="rel"; sized, with a per_page parameter after the page; unclosed,
\* without the ">"; wordy, with a page that is no number.
LinkVariants == {"absent", "plain", "sized", "unclosed", "wordy"}

LinkEntry(rel, variant) ==
  LET url == <<"https://api.github.com/repos", "?">>
      tag == <<"; rel=\"", rel, "\"">>
  IN  CASE variant = "absent" -> <<>>
        [] variant = "plain" ->
             <<"<">> \o url \o <<"page=">> \o PageOf(rel) \o <<">">> \o tag
        [] variant = "sized" ->
             <<"<">> \o url \o <<"page=">> \o PageOf(rel)
               \o <<"&", "per_", "page=", "3", "0", ">">> \o tag
        [] variant = "unclosed" ->
             <<"<">> \o url \o <<"page=">> \o PageOf(rel) \o tag
        [] variant = "wordy" ->
             <<"<">> \o url \o <<"page=", "x", ">">> \o tag

\* The orders of the four entries.
Orders ==
  {o \in [1..Len(Relations) -> 1..Len(Relations)] :
     \A i, j \in 1..Len(Relations) : i # j => o[i] # o[j]}

\* The Link header with the entries of the relations in the given order,
\* separated by ", ".
RECURSIVE LinkFrom(_, _, _)
LinkFrom(order, variant, i) ==
  IF i > Len(Relations) THEN <<>>
  ELSE LET entry == LinkEntry(Relations[order[i]], variant[order[i]])
           rest == LinkFrom(order, variant, i + 1)
       IN  IF entry = <<>> THEN rest
           ELSE IF rest = <<>> THEN entry
           ELSE entry \o <<", ">> \o rest

LinkHeader(order, variant) == LinkFrom(order, variant, 1)

\* The responses of the specification of the Link header: every order of
\* the entries and every variant of each entry.
LinkInputs ==
  {[rate |-> RateHeader(<<>>, <<>>, <<>>, <<>>), variant |-> v, order |-> o] :
     o \in Orders, v \in [1..Len(Relations) -> LinkVariants]}

\* The values of a rate-limit header: none, numbers with and without a
\* sign, and values that are no numbers.
RateValues == {<<>>, <<"6", "0">>, <<"7">>, <<"-", "1">>, <<"x">>, <<"1", "x">>}

\* The responses of the specification of the rate-limit headers.
RateInputs ==
  {[rate |-> RateHeader(l, u, m, s),
    variant |-> <<"absent", "plain", "absent", "plain">>,
    order |-> <<1, 2, 3, 4>>] :
     l \in RateValues, u \in RateValues, m \in RateValues, s \in RateValues}

\* The transport response with the headers of an input.
ResponseOf(input) ==
  [type |-> "http.Response",
   Header |-> [Limit |-> input.rate.Limit, Used |-> input.rate.Used,
               Remaining |-> input.rate.Remaining, Reset |-> input.rate.Reset,
               Link |-> LinkHeader(input.order, input.variant),
               RetryAfter |-> <<>>, Scopes |-> <<>>],
   StatusCode |-> StatusOK,
   Body |-> EmptyBody]

\* ------------------------------------------------------------------------
\* State
\* ------------------------------------------------------------------------

VARIABLES
  accessToken,  \* Client.accessToken
  rates,        \* Client.rates: a map from rate group to Rate
  ratesMutex,   \* Client.ratesMutex: the caller that holds it, or NoCaller
  now,          \* the clock, in seconds since the epoch
  pc,           \* pc[c]: where caller c is in its service operation
  req,          \* req[c]: the request of caller c, Nil before it is built
  sink,         \* sink[c]: the kind of the body argument of Do
  r,            \* r[c]: the response of the transport, Nil before it arrives
  body,         \* body[c]: the state of the body stream of r[c]
  trips,        \* trips[c]: the transport calls of the current Do call
  ret,          \* ret[c]: what Do returned, [resp, err]
  sunk,         \* sunk[c]: what the sink received
  svc,          \* svc[c]: what the service operation returned
  file,         \* file[c]: the file of an upload or of a download: "none",
                \* "open" or "closed"
  args,         \* args[c]: the arguments of the service operation of c
  delivered,    \* delivered[g]: the rate-limit headers of the response that
                \* the transport delivered last for a request of group g
  recorded,     \* recorded[g]: the rate-limit headers of the response that
                \* the tracker entry of group g was last written from
  app           \* the application of a function to an input, Nil if none

vars ==
  <<accessToken, rates, ratesMutex, now, pc, req, sink, r, body, trips, ret,
    sunk, svc, file, args, delivered, recorded, app>>

NoBody == [open |-> FALSE, drained |-> FALSE]
NoReturn == [resp |-> Nil, err |-> Nil]
NoService == [entity |-> Nil, resp |-> Nil, err |-> Nil]

Init ==
  /\ accessToken = "secret"
  /\ rates = <<>>
  /\ ratesMutex = NoCaller
  /\ now = 0
  /\ pc = [c \in Callers |-> "idle"]
  /\ req = [c \in Callers |-> Nil]
  /\ sink = [c \in Callers |-> "nil"]
  /\ r = [c \in Callers |-> Nil]
  /\ body = [c \in Callers |-> NoBody]
  /\ trips = [c \in Callers |-> 0]
  /\ ret = [c \in Callers |-> NoReturn]
  /\ sunk = [c \in Callers |-> Nil]
  /\ svc = [c \in Callers |-> NoService]
  /\ file = [c \in Callers |-> "none"]
  /\ args = [c \in Callers |-> Nil]
  /\ delivered = <<>>
  /\ recorded = <<>>
  /\ app = Nil

\* The entity a service operation hands to Do and returns on success.
Entity(data) == [type |-> "Entity", data |-> data]

\* closer.Close(): an open file is closed.
CloseFile(f) == IF f = "open" THEN "closed" ELSE f

\* Do returns (resp, err) to the service operation, which returns in turn,
\* closing the file it opened for an upload (its deferred closer.Close()).
Return(c, resp, err, data) ==
  /\ pc' = [pc EXCEPT ![c] = "done"]
  /\ ret' = [ret EXCEPT ![c] = [resp |-> resp, err |-> err]]
  /\ sunk' = [sunk EXCEPT ![c] = data]
  /\ svc' = [svc EXCEPT ![c] =
                IF args[c].op = "scopes"
                  THEN [entity |-> Nil, resp |-> Nil,
                        err |-> EnsureScopes(resp, err, args[c].scopes)]
                  ELSE ServiceReturn(resp, err, Entity(data))]
  /\ file' = [file EXCEPT ![c] = CloseFile(@)]

\* A caller starts a service operation: the request is built and, unless
\* that fails, Do is entered. The file of an upload is open from then on,
\* and so is the file a download writes to.
ServiceCall(c, calls) ==
  /\ pc[c] \in {"idle", "done"}
  /\ \E call \in calls :
       LET built == ServiceRequest(accessToken, call)
       IN  /\ args' = [args EXCEPT ![c] = call]
           /\ req' = [req EXCEPT ![c] = built.req]
           /\ sink' = [sink EXCEPT ![c] = call.sink]
           /\ r' = [r EXCEPT ![c] = Nil]
           /\ body' = [body EXCEPT ![c] = NoBody]
           /\ trips' = [trips EXCEPT ![c] = 0]
           /\ ret' = [ret EXCEPT ![c] = NoReturn]
           /\ sunk' = [sunk EXCEPT ![c] = Nil]
           /\ file' = [file EXCEPT ![c] = built.file]
           /\ IF built.err # Nil
                THEN /\ pc' = [pc EXCEPT ![c] = "done"]
                     /\ svc' = [svc EXCEPT ![c] =
                                  [entity |-> Nil, resp |-> Nil, err |-> built.err]]
                ELSE /\ pc' = [pc EXCEPT ![c] = "start"]
                     /\ svc' = [svc EXCEPT ![c] = NoService]
  /\ UNCHANGED <<accessToken, app, delivered, recorded, rates, ratesMutex, now>>

\* c.ratesMutex.Lock() of the rate check.
LockForCheck(c) ==
  /\ pc[c] = "start"
  /\ ratesMutex = NoCaller
  /\ ratesMutex' = c
  /\ pc' = [pc EXCEPT ![c] = "checking"]
  /\ UNCHANGED <<accessToken, app, args, delivered, recorded,
                 rates, now, req, sink, r, body, trips, ret, sunk,
                 svc, file>>

\* CheckRates that counts the call it lets through against the cached quota.
CheckRatesEstimating(c) ==
  /\ pc[c] = "checking"
  /\ ratesMutex = c
  /\ ratesMutex' = NoCaller
  /\ LET g == getRateGroup(req[c].URL)
         ok == g \in DOMAIN rates
         rate == MapGet(rates, g)
     IN  IF RateBlocked(ok, rate, now)
           THEN /\ Return(c, Nil, RateLimitError(Nil, req[c], rate), Nil)
                /\ UNCHANGED rates
           ELSE /\ pc' = [pc EXCEPT ![c] = "dispatch"]
                /\ rates' = IF ok /\ rate.Remaining > 0
                              THEN MapSet(rates, g,
                                     [rate EXCEPT !.Remaining = @ - 1])
                              ELSE rates
                /\ UNCHANGED <<ret, sunk, svc, file>>
  /\ UNCHANGED <<accessToken, app, args, delivered, recorded,
                 now, req, sink, r, body, trips>>

\* The rate check with the unlock deferred to the return of Do: a call that
\* passes the check goes on with the mutex held.
CheckRatesHoldingMutex(c) ==
  /\ pc[c] = "checking"
  /\ ratesMutex = c
  /\ LET g == getRateGroup(req[c].URL)
         ok == g \in DOMAIN rates
         rate == MapGet(rates, g)
     IN  IF RateBlocked(ok, rate, now)
           THEN /\ Return(c, Nil, RateLimitError(Nil, req[c], rate), Nil)
                /\ ratesMutex' = NoCaller
           ELSE /\ pc' = [pc EXCEPT ![c] = "dispatch"]
                /\ UNCHANGED <<ratesMutex, ret, sunk, svc, file>>
  /\ UNCHANGED <<accessToken, app, args, delivered, recorded,
                 rates, now, req, sink, r, body, trips>>

\* The rate check that lets every call through.
CheckRatesLettingThrough(c) ==
  /\ pc[c] = "checking"
  /\ ratesMutex = c
  /\ ratesMutex' = NoCaller
  /\ pc' = [pc EXCEPT ![c] = "dispatch"]
  /\ UNCHANGED <<accessToken, app, args, delivered, recorded, rates, now, req,
                 sink, r, body, trips, ret, sunk, svc, file>>

\* rate, ok := c.rates[g]; c.ratesMutex.Unlock(); and the check of the entry
\* against time.Now(): a RateLimitError without a transport call, or on to
\* the transport.
CheckRates(c) ==
  /\ pc[c] = "checking"
  /\ ratesMutex = c
  /\ ratesMutex' = NoCaller
  /\ LET g == getRateGroup(req[c].URL)
         ok == g \in DOMAIN rates
         rate == MapGet(rates, g)
     IN  IF RateBlocked(ok, rate, now)
           THEN Return(c, Nil, RateLimitError(Nil, req[c], rate), Nil)
           ELSE /\ pc' = [pc EXCEPT ![c] = "dispatch"]
                /\ UNCHANGED <<ret, sunk, svc, file>>
  /\ UNCHANGED <<accessToken, app, args, delivered, recorded,
                 rates, now, req, sink, r, body, trips>>

\* The transport step of a Do that tries again after a failure.
TransportRetrying(c, responses) ==
  /\ pc[c] = "dispatch"
  /\ trips' = [trips EXCEPT ![c] = @ + 1]
  /\ \/ /\ trips[c] = 0
        /\ UNCHANGED <<pc, r, body, ret, sunk, svc, file, delivered>>
     \/ /\ trips[c] > 0
        /\ Return(c, Nil, TransportError, Nil)
        /\ UNCHANGED <<r, body, delivered>>
     \/ /\ \E resp \in responses :
             /\ r' = [r EXCEPT ![c] =
                        [type |-> resp.type, StatusCode |-> resp.StatusCode,
                         Header |-> resp.Header, Body |-> resp.Body,
                         Request |-> req[c]]]
             /\ delivered' = Remember(delivered, getRateGroup(req[c].URL),
                                      resp.Header)
        /\ body' = [body EXCEPT ![c] = [open |-> TRUE, drained |-> FALSE]]
        /\ pc' = [pc EXCEPT ![c] = "responded"]
        /\ UNCHANGED <<ret, sunk, svc, file>>
  /\ UNCHANGED <<accessToken, app, args, recorded,
                 rates, ratesMutex, now, req, sink>>

\* c.httpClient.Do(req): the transport fails, or the server answers.
Transport(c, responses) ==
  /\ pc[c] = "dispatch"
  /\ trips' = [trips EXCEPT ![c] = @ + 1]
  /\ \/ /\ Return(c, Nil, TransportError, Nil)
        /\ UNCHANGED <<r, body, delivered>>
     \/ /\ \E resp \in responses :
             /\ r' = [r EXCEPT ![c] =
                        [type |-> resp.type, StatusCode |-> resp.StatusCode,
                         Header |-> resp.Header, Body |-> resp.Body,
                         Request |-> req[c]]]
             /\ delivered' = Remember(delivered, getRateGroup(req[c].URL),
                                      resp.Header)
        /\ body' = [body EXCEPT ![c] = [open |-> TRUE, drained |-> FALSE]]
        /\ pc' = [pc EXCEPT ![c] = "responded"]
        /\ UNCHANGED <<ret, sunk, svc, file>>
  /\ UNCHANGED <<accessToken, app, args, recorded,
                 rates, ratesMutex, now, req, sink>>

\* resp := newResponse(r); c.ratesMutex.Lock() of the tracker update.
LockForUpdate(c) ==
  /\ pc[c] = "responded"
  /\ ratesMutex = NoCaller
  /\ ratesMutex' = c
  /\ pc' = [pc EXCEPT ![c] = "updating"]
  /\ UNCHANGED <<accessToken, app, args, delivered, recorded,
                 rates, now, req, sink, r, body, trips, ret, sunk,
                 svc, file>>

\* UpdateRates that writes the entry of a group only when there is none.
UpdateRatesIfMissing(c) ==
  /\ pc[c] = "updating"
  /\ ratesMutex = c
  /\ rates' = MapSetIfMissing(rates, getRateGroup(req[c].URL),
                            newResponse(r[c]).Rate)
  /\ recorded' = Remember(recorded, getRateGroup(req[c].URL), r[c].Header)
  /\ ratesMutex' = NoCaller
  /\ pc' = [pc EXCEPT ![c] = "updated"]
  /\ UNCHANGED <<accessToken, app, args, delivered,
                 now, req, sink, r, body, trips, ret, sunk, svc,
                 file>>

\* c.rates[g] = resp.Rate; c.ratesMutex.Unlock()
UpdateRates(c) ==
  /\ pc[c] = "updating"
  /\ ratesMutex = c
  /\ rates' = MapSet(rates, getRateGroup(req[c].URL), newResponse(r[c]).Rate)
  /\ recorded' = Remember(recorded, getRateGroup(req[c].URL), r[c].Header)
  /\ ratesMutex' = NoCaller
  /\ pc' = [pc EXCEPT ![c] = "updated"]
  /\ UNCHANGED <<accessToken, app, args, delivered,
                 now, req, sink, r, body, trips, ret, sunk, svc,
                 file>>

\* The rest of Do: the status check, the error mapping or the body step, the
\* deferred drain and close of the body, and the return.
Finish(c) ==
  /\ pc[c] = "updated"
  /\ \E writeOk \in BOOLEAN :
       LET out == CheckAndRead(req[c], sink[c], r[c], writeOk)
       IN  Return(c, out.resp, out.err, out.sunk)
  /\ body' = [body EXCEPT ![c] = DrainAndClose(@)]
  /\ UNCHANGED <<accessToken, app, args, delivered, recorded,
                 rates, ratesMutex, now, req, sink, r, trips>>

\* if !isSuccess(r.StatusCode): the outcome is decided, and Do goes on to
\* the error mapping or to the body step.
CheckStatus(c) ==
  /\ pc[c] = "updated"
  /\ pc' = [pc EXCEPT ![c] =
               IF isSuccess(r[c].StatusCode) THEN "reading" ELSE "mapping"]
  /\ UNCHANGED <<accessToken, app, args, delivered, recorded,
                 rates, ratesMutex, now, req, sink, r,
                 body, trips, ret, sunk, svc, file>>

\* The error mapping: the body is read to its end into the ResponseError;
\* the switch over the status returns an error, with the deferred drain and
\* close of the body, or no case returns and Do goes on to the body step.
MapErrorStep(c) ==
  /\ pc[c] = "mapping"
  /\ LET resp == newResponse(r[c])
         respErr == ResponseError(r[c], UnmarshalResponseError(r[c].Body))
         mapped == MapError(req[c], r[c], resp, respErr)
     IN  IF mapped # Nil
           THEN /\ Return(c, Nil, mapped, Nil)
                /\ body' = [body EXCEPT ![c] = DrainAndClose(@)]
           ELSE /\ pc' = [pc EXCEPT ![c] = "reading"]
                /\ body' = [body EXCEPT ![c].drained = TRUE]
                /\ UNCHANGED <<ret, sunk, svc, file>>
  /\ UNCHANGED <<accessToken, app, args, delivered, recorded,
                 rates, ratesMutex, now, req, sink, r,
                 trips>>

\* The body step: what is left of the body is copied or decoded into the
\* sink, the body is drained and closed, and Do returns.
ReadBodyStep(c) ==
  /\ pc[c] = "reading"
  /\ \E writeOk \in BOOLEAN :
       LET left == IF body[c].drained THEN EmptyBody ELSE r[c].Body
           read == ReadBody(sink[c], left, writeOk)
       IN  IF read.err # Nil
             THEN Return(c, Nil, read.err, Nil)
             ELSE Return(c, newResponse(r[c]), Nil, read.sunk)
  /\ body' = [body EXCEPT ![c] = DrainAndClose(@)]
  /\ UNCHANGED <<accessToken, app, args, delivered, recorded,
                 rates, ratesMutex, now, req, sink, r,
                 trips>>

\* A second passes.
Tick ==
  /\ now < MaxTime
  /\ now' = now + 1
  /\ UNCHANGED <<accessToken, app, args, delivered, recorded,
                 rates, ratesMutex, pc, req, sink, r, body,
                 trips, ret, sunk, svc, file>>

\* The tracker under one caller, three rate groups and a running clock.
Next ==
  \/ \E c \in OneCaller : ServiceCall(c, BadCalls \cup GroupCalls)
  \/ \E c \in OneCaller : LockForCheck(c)
  \/ \E c \in OneCaller : CheckRates(c)
  \/ \E c \in OneCaller : Transport(c, TrackerResponses)
  \/ \E c \in OneCaller : LockForUpdate(c)
  \/ \E c \in OneCaller : UpdateRates(c)
  \/ \E c \in OneCaller : Finish(c)
  \/ Tick

Spec == Init /\ [][Next]_vars

\* The outcome of Do under one caller, one rate group, every response and
\* every sink.
NextOutcome ==
  \/ \E c \in OneCaller : ServiceCall(c, BadCalls \cup SinkCalls)
  \/ \E c \in OneCaller : LockForCheck(c)
  \/ \E c \in OneCaller : CheckRates(c)
  \/ \E c \in OneCaller : Transport(c, OutcomeResponses)
  \/ \E c \in OneCaller : LockForUpdate(c)
  \/ \E c \in OneCaller : UpdateRates(c)
  \/ \E c \in OneCaller : Finish(c)
  \/ Tick

SpecOutcome == Init /\ [][NextOutcome]_vars

\* The steps of Do one by one, from the status check on, under one caller,
\* every response and every sink.
NextSteps ==
  \/ \E c \in OneCaller : ServiceCall(c, BadCalls \cup SinkCalls)
  \/ \E c \in OneCaller : LockForCheck(c)
  \/ \E c \in OneCaller : CheckRates(c)
  \/ \E c \in OneCaller : Transport(c, OutcomeResponses)
  \/ \E c \in OneCaller : LockForUpdate(c)
  \/ \E c \in OneCaller : UpdateRates(c)
  \/ \E c \in OneCaller : CheckStatus(c)
  \/ \E c \in OneCaller : MapErrorStep(c)
  \/ \E c \in OneCaller : ReadBodyStep(c)
  \/ Tick

SpecSteps == Init /\ [][NextSteps]_vars

\* Two callers share the client: their Do calls interleave at every step.
NextConc ==
  \/ \E c \in Callers : ServiceCall(c, ConcCalls)
  \/ \E c \in Callers : LockForCheck(c)
  \/ \E c \in Callers : CheckRates(c)
  \/ \E c \in Callers : Transport(c, ConcResponses)
  \/ \E c \in Callers : LockForUpdate(c)
  \/ \E c \in Callers : UpdateRates(c)
  \/ \E c \in Callers : Finish(c)
  \/ Tick

SpecConc == Init /\ [][NextConc]_vars

\* Fair scheduling of two callers that share the client: a caller that can
\* take a step of its own takes it, a caller that waits for the mutex gets it
\* when it is free again and again, and the transport returns.
Fairness ==
  \A c \in Callers :
    /\ SF_vars(LockForCheck(c))
    /\ WF_vars(CheckRates(c))
    /\ WF_vars(Transport(c, LiveResponses))
    /\ SF_vars(LockForUpdate(c))
    /\ WF_vars(UpdateRates(c))
    /\ WF_vars(Finish(c))

\* Two callers share the client, and the server answers every call with
\* success, with calls remaining or without.
NextLive ==
  \/ \E c \in Callers : ServiceCall(c, ConcCalls)
  \/ \E c \in Callers : LockForCheck(c)
  \/ \E c \in Callers : CheckRates(c)
  \/ \E c \in Callers : Transport(c, LiveResponses)
  \/ \E c \in Callers : LockForUpdate(c)
  \/ \E c \in Callers : UpdateRates(c)
  \/ \E c \in Callers : Finish(c)
  \/ Tick

SpecLive == Init /\ [][NextLive]_vars /\ Fairness

\* A client with or without an access token.
InitBuild ==
  /\ accessToken \in Tokens
  /\ rates = <<>>
  /\ ratesMutex = NoCaller
  /\ now = 0
  /\ pc = [c \in Callers |-> "idle"]
  /\ req = [c \in Callers |-> Nil]
  /\ sink = [c \in Callers |-> "nil"]
  /\ r = [c \in Callers |-> Nil]
  /\ body = [c \in Callers |-> NoBody]
  /\ trips = [c \in Callers |-> 0]
  /\ ret = [c \in Callers |-> NoReturn]
  /\ sunk = [c \in Callers |-> Nil]
  /\ svc = [c \in Callers |-> NoService]
  /\ file = [c \in Callers |-> "none"]
  /\ args = [c \in Callers |-> Nil]
  /\ delivered = <<>>
  /\ recorded = <<>>
  /\ app = Nil

\* One caller runs plain, paginated, upload and download operations.
NextBuild ==
  \/ \E c \in OneCaller : ServiceCall(c, PlainCalls)
  \/ \E c \in OneCaller : ServiceCall(c, PageCalls)
  \/ \E c \in OneCaller : ServiceCall(c, UploadCalls)
  \/ \E c \in OneCaller : ServiceCall(c, DownloadCalls)
  \/ \E c \in OneCaller : LockForCheck(c)
  \/ \E c \in OneCaller : CheckRates(c)
  \/ \E c \in OneCaller : Transport(c, BuildResponses)
  \/ \E c \in OneCaller : LockForUpdate(c)
  \/ \E c \in OneCaller : UpdateRates(c)
  \/ \E c \in OneCaller : Finish(c)
  \/ Tick

SpecBuild == InitBuild /\ [][NextBuild]_vars

\* One caller checks the scopes of the access token.
NextScopes ==
  \/ \E c \in OneCaller : ServiceCall(c, ScopesCalls)
  \/ \E c \in OneCaller : LockForCheck(c)
  \/ \E c \in OneCaller : CheckRates(c)
  \/ \E c \in OneCaller : Transport(c, ScopesResponses)
  \/ \E c \in OneCaller : LockForUpdate(c)
  \/ \E c \in OneCaller : UpdateRates(c)
  \/ \E c \in OneCaller : Finish(c)
  \/ Tick

SpecScopes == InitBuild /\ [][NextScopes]_vars

\* The application of a function to one of its inputs: the client is idle.
InitApp(fn, inputs) ==
  /\ accessToken = "secret"
  /\ rates = <<>>
  /\ ratesMutex = NoCaller
  /\ now = 0
  /\ pc = [c \in Callers |-> "idle"]
  /\ req = [c \in Callers |-> Nil]
  /\ sink = [c \in Callers |-> "nil"]
  /\ r = [c \in Callers |-> Nil]
  /\ body = [c \in Callers |-> NoBody]
  /\ trips = [c \in Callers |-> 0]
  /\ ret = [c \in Callers |-> NoReturn]
  /\ sunk = [c \in Callers |-> Nil]
  /\ svc = [c \in Callers |-> NoService]
  /\ file = [c \in Callers |-> "none"]
  /\ args = [c \in Callers |-> Nil]
  /\ delivered = <<>>
  /\ recorded = <<>>
  /\ app \in {[fn |-> fn, arg |-> x, out |-> Nil] : x \in inputs}

\* The variables of the client and of its callers.
clientVars ==
  <<accessToken, rates, ratesMutex, now, pc, req, sink, r, body, trips, ret,
    sunk, svc, file, args, delivered, recorded>>

\* g := getRateGroup(req.URL)
ApplyGetRateGroup ==
  /\ app.fn = "getRateGroup"
  /\ app.out = Nil
  /\ app' = [app EXCEPT !.out = [g |-> getRateGroup(app.arg.URL)]]
  /\ UNCHANGED clientVars

InitRateGroup == InitApp("getRateGroup", GroupRequests)

SpecRateGroup == InitRateGroup /\ [][ApplyGetRateGroup]_vars

\* resp := newResponse(r)
ApplyNewResponse ==
  /\ app.fn = "newResponse"
  /\ app.out = Nil
  /\ app' = [app EXCEPT !.out = [once |-> newResponse(ResponseOf(app.arg)),
                                 twice |-> Nil]]
  /\ UNCHANGED clientVars

\* newResponse(r) on the same response once more.
ApplyNewResponseAgain ==
  /\ app.fn = "newResponse"
  /\ app.out # Nil
  /\ app.out.twice = Nil
  /\ app' = [app EXCEPT !.out.twice = newResponse(ResponseOf(app.arg))]
  /\ UNCHANGED clientVars

NextResponse == ApplyNewResponse \/ ApplyNewResponseAgain

InitPages == InitApp("newResponse", LinkInputs)

SpecPages == InitPages /\ [][NextResponse]_vars

InitRates == InitApp("newResponse", RateInputs)

SpecRates == InitRates /\ [][NextResponse]_vars

\* ------------------------------------------------------------------------
\* Properties
\* ------------------------------------------------------------------------

\* The group of the request of caller c.
GroupOf(c) == getRateGroup(req[c].URL)

\* Caller c has returned from a Do call in which the server answered.
Answered(c) == pc[c] = "done" /\ r[c] # Nil

\* Do has returned to caller c an error made by the rate check.
RejectedLocally(c) ==
  /\ pc[c] = "done"
  /\ ret[c].err.type = "RateLimitError"
  /\ ret[c].err.err = Nil

\* C1: the rate check ends the call with a RateLimitError that carries the
\* request and the cached Rate, without a transport call, exactly when the
\* tracker holds an entry for the group of the request with Remaining 0 and a
\* Reset time after the current time; in every other case the call goes on
\* to the transport. A call that was rejected by the rate check has made no
\* transport call.
C1_LocalRejection ==
  /\ [][\A c \in Callers :
          (pc[c] = "checking" /\ pc'[c] # "checking") =>
             IF /\ GroupOf(c) \in DOMAIN rates
                /\ rates[GroupOf(c)].Remaining = 0
                /\ now < rates[GroupOf(c)].Reset
               THEN /\ pc'[c] = "done"
                    /\ ret'[c].resp = Nil
                    /\ ret'[c].err.type = "RateLimitError"
                    /\ ret'[c].err.Request = req[c]
                    /\ ret'[c].err.Rate = rates[GroupOf(c)]
                    /\ trips'[c] = 0
               ELSE /\ pc'[c] = "dispatch"
                    /\ ret'[c] = NoReturn]_vars
  /\ [](\A c \in Callers : RejectedLocally(c) => trips[c] = 0 /\ r[c] = Nil)

\* A call of the core group was rejected by the rate check.
C1_Witness ==
  /\ RejectedLocally("c1")
  /\ trips["c1"] = 0
  /\ rateGroupCore \in DOMAIN rates
  /\ ret["c1"].err.Rate = rates[rateGroupCore]
  /\ ret["c1"].err.Rate.Remaining = 0
  /\ now < ret["c1"].err.Rate.Reset

\* C2: after a Do call in which the server answered, whatever the status and
\* whether or not the body could be decoded, the tracker entry of the group
\* of the request is the Rate of the headers of that response.
C2_TrackerHoldsObservedRate ==
  \A c \in OneCaller :
    Answered(c) =>
      /\ GroupOf(c) \in DOMAIN rates
      /\ rates[GroupOf(c)] = ParseRate(r[c].Header)

\* A second response of the group, a 200 whose body could not be decoded,
\* has replaced the entry that the first response left.
C2_Witness ==
  /\ Answered("c1")
  /\ r["c1"].StatusCode = StatusOK
  /\ ret["c1"].err = SyntaxError
  /\ rates[rateGroupCore] = [Limit |-> 60, Used |-> 53, Remaining |-> 7, Reset |-> 2]
  /\ now >= 2

\* C3: the tracker changes only in the update step of a Do call that holds a
\* response of the server; the rate check, a failed transport call and the
\* request builder leave it as it was.
C3_TrackerChangesOnlyOnResponse ==
  [][rates' # rates =>
       \E c \in Callers :
         /\ pc[c] = "updating"
         /\ pc'[c] = "updated"
         /\ r[c] # Nil
         /\ \A g \in DOMAIN rates \ {GroupOf(c)} :
              g \in DOMAIN rates' /\ rates'[g] = rates[g]]_vars

\* A transport call failed while the tracker held an entry of its group.
C3_Witness ==
  /\ pc["c1"] = "done"
  /\ ret["c1"].err = TransportError
  /\ GroupOf("c1") \in DOMAIN rates
  /\ rates[GroupOf("c1")].Remaining = 7

\* The statuses that Do takes for success.
SuccessStatuses == {StatusOK, StatusCreated, StatusNoContent}

\* The sink of caller c cannot take the body of the response: the body is
\* no JSON document of the type of the sink.
Undecodable(c) ==
  sink[c] = "json" /\ r[c].Body.kind \in {"malformed", "array"}

\* C4 as stated: for every response with status 200, 201 or 204, Do returns
\* a non-nil envelope and no error.
C4_SuccessAlwaysGivesEnvelope ==
  \A c \in OneCaller :
    (Answered(c) /\ r[c].StatusCode \in SuccessStatuses) =>
       ret[c].resp # Nil /\ ret[c].err = Nil

\* C4, amended: for every response with status 200, 201 or 204, Do returns a
\* non-nil envelope and no error unless the body cannot be copied or decoded
\* into the sink; a JSON sink with a body that is no JSON document of its
\* type, or a writer that refuses the body, gives that error and a nil
\* envelope.
C4_SuccessUnlessBodyFails ==
  \A c \in OneCaller :
    (Answered(c) /\ r[c].StatusCode \in SuccessStatuses) =>
       \/ /\ ~Undecodable(c)
          /\ ret[c].err = Nil
          /\ ret[c].resp # Nil
          /\ ret[c].resp.Rate = ParseRate(r[c].Header)
       \/ /\ Undecodable(c)
          /\ ret[c].resp = Nil
          /\ ret[c].err \in {SyntaxError, UnmarshalTypeError}
       \/ /\ sink[c] = "writer"
          /\ r[c].Body.kind # "empty"
          /\ ret[c].resp = Nil
          /\ ret[c].err = WriteError

\* A 201 response with a JSON object was decoded into the sink.
C4_Witness ==
  /\ Answered("c1")
  /\ r["c1"].StatusCode = StatusCreated
  /\ sink["c1"] = "json"
  /\ r["c1"].Body.kind = "object"
  /\ ret["c1"].err = Nil
  /\ ret["c1"].resp # Nil
  /\ sunk["c1"] = r["c1"].Body

\* The decimal digits of the statuses of the model.
StatusDigits(status) ==
  CASE status = StatusAccepted -> <<"2", "0", "2">>
    [] status = StatusBadRequest -> <<"4", "0", "0">>
    [] status = StatusUnauthorized -> <<"4", "0", "1">>
    [] status = StatusNotFound -> <<"4", "0", "4">>
    [] status = StatusInternalServerError -> <<"5", "0", "0">>

\* "<METHOD> <PATH>: <status> <server message>" for the call of caller c,
\* the server message being empty unless the body is a JSON object.
ExpectedMessage(c) ==
  <<req[c].Method, " ">> \o req[c].URL.Path \o <<": ">>
    \o StatusDigits(r[c].StatusCode)
    \o <<" ", IF r[c].Body.kind = "object" THEN r[c].Body.message ELSE "">>

\* C5: for a non-success response whose status is not 403 the error depends
\* on the status alone: 401 gives an AuthError, 404 a NotFoundError, 400 and
\* every other status a ResponseError, each with the message
\* "<METHOD> <PATH>: <status> <server message>".
C5_ErrorByStatus ==
  \A c \in OneCaller :
    (Answered(c) /\ r[c].StatusCode \notin SuccessStatuses \cup {StatusForbidden}) =>
       /\ ret[c].resp = Nil
       /\ ret[c].err.type =
            (CASE r[c].StatusCode = StatusUnauthorized -> "AuthError"
               [] r[c].StatusCode = StatusNotFound -> "NotFoundError"
               [] OTHER -> "ResponseError")
       /\ ErrorString(ret[c].err) = ExpectedMessage(c)

\* A 404 response with a JSON message came back as a NotFoundError.
C5_Witness ==
  /\ Answered("c1")
  /\ r["c1"].StatusCode = StatusNotFound
  /\ ret["c1"].err.type = "NotFoundError"
  /\ ErrorString(ret["c1"].err) =
       <<"GET", " ", "/user", ": ", "4", "0", "4", " ", "Not Found">>

\* C6: a 403 response whose X-RateLimit-Remaining header is "0" gives a
\* RateLimitError that carries the request and the Rate of the headers of
\* the response, whatever the body holds, the abuse marker included.
C6_RateLimitBeforeAbuse ==
  \A c \in OneCaller :
    (/\ Answered(c)
     /\ r[c].StatusCode = StatusForbidden
     /\ r[c].Header.Remaining = <<"0">>) =>
       /\ ret[c].resp = Nil
       /\ ret[c].err.type = "RateLimitError"
       /\ ret[c].err.Request = req[c]
       /\ ret[c].err.Rate = ParseRate(r[c].Header)
       /\ ret[c].err.err.type = "ResponseError"

\* A 403 response with Remaining "0" and the abuse marker in its body came
\* back as a RateLimitError.
C6_Witness ==
  /\ Answered("c1")
  /\ r["c1"].StatusCode = StatusForbidden
  /\ r["c1"].Header.Remaining = <<"0">>
  /\ HasSuffix(r["c1"].Body.documentation_url, abuseMarker)
  /\ ret["c1"].err.type = "RateLimitError"
  /\ ret["c1"].err.Rate = [Limit |-> 60, Used |-> 60, Remaining |-> 0, Reset |-> 2]

\* The Retry-After header of the response of caller c read as seconds, in
\* milliseconds: zero when it is missing or no number.
RetryAfterSeconds(c) ==
  LET h == r[c].Header.RetryAfter
  IN  IF h # <<>> /\ AllDigits(h) THEN DigitsValue(h) * Second ELSE 0

\* C7: a 403 response whose X-RateLimit-Remaining header is not "0" and whose
\* documentation URL ends with "#abuse-rate-limits" gives a
\* RateLimitAbuseError that carries the Rate of the response and the
\* Retry-After header read as seconds, zero when the header is missing or is
\* no number.
C7_AbuseCarriesRetryAfter ==
  \A c \in OneCaller :
    (/\ Answered(c)
     /\ r[c].StatusCode = StatusForbidden
     /\ r[c].Header.Remaining # <<"0">>
     /\ r[c].Body.kind = "object"
     /\ HasSuffix(r[c].Body.documentation_url, abuseMarker)) =>
       /\ ret[c].resp = Nil
       /\ ret[c].err.type = "RateLimitAbuseError"
       /\ ret[c].err.Rate = ParseRate(r[c].Header)
       /\ ret[c].err.RetryAfter = RetryAfterSeconds(c)

\* C8: for every response whose status is not 200, 201 or 204, Do returns an
\* error of one of the five typed shapes.
C8_NonSuccessGivesTypedError ==
  \A c \in OneCaller :
    (Answered(c) /\ r[c].StatusCode \notin SuccessStatuses) =>
       /\ ret[c].err # Nil
       /\ ret[c].err.type \in TypedErrors

\* C9: Do returns an envelope or an error and never both or neither, and a
\* service operation returns a nil entity and a nil envelope with any error.
C9_EnvelopeOrError ==
  \A c \in OneCaller :
    pc[c] = "done" =>
      /\ req[c] # Nil => ((ret[c].err = Nil) <=> (ret[c].resp # Nil))
      /\ req[c] # Nil => svc[c].err = ret[c].err
      /\ svc[c].err # Nil => (svc[c].entity = Nil /\ svc[c].resp = Nil)

\* A service operation returned the decode error of a 200 response.
C9_Witness ==
  /\ Answered("c1")
  /\ r["c1"].StatusCode = StatusOK
  /\ svc["c1"].err = SyntaxError
  /\ svc["c1"].entity = Nil
  /\ svc["c1"].resp = Nil
  /\ ret["c1"].resp = Nil

\* C10: when Do returns from a call in which the server answered, the body
\* of the response has been drained and closed.
C10_BodyDrainedAndClosed ==
  \A c \in OneCaller :
    Answered(c) => (body[c].drained /\ ~body[c].open)

\* Do returned from the 403 case that maps to no error, the body closed.
C10_Witness ==
  /\ Answered("c1")
  /\ r["c1"].StatusCode = StatusForbidden
  /\ ret["c1"].err = Nil
  /\ body["c1"].drained
  /\ ~body["c1"].open

\* The callers inside a critical section of the rates mutex.
InCriticalSection(c) == pc[c] \in {"checking", "updating"}

\* C11: the rates mutex is held only around the single map read of the rate
\* check and the single map write of the tracker update. A caller holds the
\* mutex exactly while it is at the read or at the write, so no Do call holds
\* it during the transport call, the body read or the decode; the next step
\* of the holder releases it; and the rates map changes only in the write
\* step of the caller that holds the mutex.
C11_MutexAroundMapAccessOnly ==
  /\ [](\A c \in Callers : ratesMutex = c <=> InCriticalSection(c))
  /\ [][/\ \A c \in Callers :
             ratesMutex = c /\ pc'[c] # pc[c] => ratesMutex' = NoCaller
        /\ rates' # rates =>
             \E c \in Callers : /\ ratesMutex = c
                                /\ pc[c] = "updating"
                                /\ pc'[c] = "updated"]_vars

\* One caller writes the tracker under the mutex while the response of the
\* other is in flight between the transport and the update.
C11_Witness ==
  /\ pc["c1"] = "responded"
  /\ pc["c2"] = "updating"
  /\ ratesMutex = "c2"

\* What the builder of the operation of a call returns, [req, err].
BuilderResult(token, call) ==
  CASE call.op = "plain" ->
         NewRequest(publicAPIURL, token, call.ctx, call.method, call.url,
                    call.body)
    [] call.op = "page" ->
         NewPageRequest(publicAPIURL, token, call.ctx, call.method, call.url,
                        call.pageSize, call.pageNo, call.body)
    [] call.op = "upload" ->
         LET built == NewUploadRequest(publicUploadURL, token, call.ctx,
                                       call.url, call.file)
         IN  [req |-> built.req, err |-> built.err]
    [] call.op = "download" ->
         NewDownloadRequest(publicDownloadURL, token, call.ctx, call.url)

\* A nil context, a relative path that does not parse, a body that cannot be
\* JSON-encoded, or an upload file that cannot be opened.
ConstructionFails(call) ==
  \/ call.ctx = Nil
  \/ HasPrefix(call.url, <<":">>)
  \/ call.body = "unencodable"
  \/ call.op = "upload" /\ call.file = "missing"

\* C12: when the construction of the request fails (nil context, relative
\* path that does not parse, body that cannot be JSON-encoded, upload file
\* that cannot be opened), the builder returns a nil request with the error,
\* and the service operation returns that error without calling Do: Do has
\* returned nothing, the transport was not invoked, and the step leaves the
\* tracker as it was.
C12_BuilderFailureSkipsDo ==
  /\ [](\A c \in Callers :
          pc[c] # "idle" =>
            LET built == BuilderResult(accessToken, args[c])
            IN  /\ ConstructionFails(args[c]) => built.err # Nil
                /\ built.err # Nil =>
                     /\ built.req = Nil
                     /\ pc[c] = "done"
                     /\ svc[c] = [entity |-> Nil, resp |-> Nil,
                                  err |-> built.err]
                     /\ ret[c] = NoReturn
                     /\ r[c] = Nil
                     /\ trips[c] = 0)
  /\ [][\A c \in Callers :
          /\ pc[c] \in {"idle", "done"}
          /\ args'[c] # Nil
          /\ BuilderResult(accessToken, args'[c]).err # Nil
          => rates' = rates /\ pc'[c] = "done"]_vars

\* An upload whose file cannot be opened has returned the error of the open
\* while the tracker holds what an earlier call left there.
C12_Witness ==
  /\ pc["c1"] = "done"
  /\ args["c1"] # Nil
  /\ args["c1"].op = "upload"
  /\ args["c1"].file = "missing"
  /\ svc["c1"].err = OpenError
  /\ rates # <<>>

\* C13: when the transport fails, Do returns that same error, unchanged and
\* with a nil envelope, in the step of the failure and without touching the
\* tracker; and on every path one Do call invokes the transport at most
\* once.
C13_TransportErrorUnchangedNoRetry ==
  /\ [](\A c \in Callers : trips[c] <= 1)
  /\ [][\A c \in Callers :
          pc[c] = "dispatch" /\ trips'[c] # trips[c] /\ r'[c] = Nil =>
            /\ pc'[c] = "done"
            /\ ret'[c] = [resp |-> Nil, err |-> TransportError]
            /\ svc'[c] = [entity |-> Nil, resp |-> Nil, err |-> TransportError]
            /\ rates' = rates]_vars

\* Do has returned the error of the transport after one transport call.
C13_Witness ==
  /\ pc["c1"] = "done"
  /\ trips["c1"] = 1
  /\ r["c1"] = Nil
  /\ ret["c1"] = [resp |-> Nil, err |-> TransportError]

\* C14: getRateGroup is a function of the path of the URL alone: a path with
\* the prefix "/search" gives the search group, one with the prefix
\* "/graphql" the graphql group, every other path the core group; requests
\* that differ in host, query or method only are in the same group.
C14_GroupFromPathPrefix ==
  app.fn = "getRateGroup" /\ app.out # Nil =>
    LET path == app.arg.URL.Path
        head == IF path = <<>> THEN "" ELSE path[1]
    IN  /\ app.out.g = (CASE head = "/search" -> rateGroupSearch
                           [] head = "/graphql" -> rateGroupGraphQL
                           [] OTHER -> rateGroupCore)
        /\ \A other \in GroupRequests :
             other.URL.Path = path => getRateGroup(other.URL) = app.out.g

\* A POST to another host whose path starts with "/search" and whose query
\* names another group is in the search group.
C14_Witness ==
  /\ app.fn = "getRateGroup"
  /\ app.out = [g |-> rateGroupSearch]
  /\ app.arg.Method = "POST"
  /\ app.arg.URL.Host = "https://graphql.example.com"
  /\ app.arg.URL.RawQuery = <<"path", "=", "/graphql">>

\* The field of Pages that belongs to the relation i.
PageField(pages, i) ==
  CASE i = 1 -> pages.First
    [] i = 2 -> pages.Prev
    [] i = 3 -> pages.Next
    [] i = 4 -> pages.Last

\* C15: newResponse derives each field of Pages from the entry of its own
\* relation in the Link header. The field is what the entry gives when it
\* is alone in the header, whatever the other entries are; it is zero when
\* the entry is absent or malformed and the page number when the entry is
\* plain; every order of the same entries gives the same Pages; and parsing
\* the same header once more gives the same Pages.
C15_PagesIndependentOfOrder ==
  app.fn = "newResponse" /\ app.out # Nil =>
    LET pages == app.out.once.Pages
        variant == app.arg.variant
        Alone(i) == ParsePages([Link |-> LinkEntry(Relations[i], variant[i])])
    IN  /\ \A i \in 1..Len(Relations) :
             /\ PageField(pages, i) = PageField(Alone(i), i)
             /\ variant[i] \in {"absent", "unclosed", "wordy"} =>
                  PageField(pages, i) = 0
             /\ variant[i] = "plain" =>
                  PageField(pages, i) = DigitsValue(PageOf(Relations[i]))
        /\ app.out.twice # Nil =>
             /\ app.out.twice.Pages = pages
             /\ \A o \in Orders :
                  ParsePages([Link |-> LinkHeader(o, variant)]) = pages

\* A header that lists last, next, prev and first in this order, with a
\* next entry that lacks its ">", was parsed twice: Next is zero and the
\* other fields are the pages of their entries.
C15_Witness ==
  /\ app.fn = "newResponse"
  /\ app.out # Nil
  /\ app.out.twice # Nil
  /\ app.arg.order = <<4, 3, 2, 1>>
  /\ app.arg.variant = <<"plain", "plain", "unclosed", "plain">>
  /\ app.out.once.Pages = [First |-> 1, Prev |-> 2, Next |-> 0, Last |-> 12]

\* A header value that is a decimal integer: digits after an optional sign.
IsInteger(s) ==
  LET digits == IF s # <<>> /\ s[1] \in {"+", "-"} THEN Tail(s) ELSE s
  IN  digits # <<>> /\ \A i \in 1..Len(digits) : digits[i] \in DigitChars

\* The integer a decimal header value denotes.
IntegerOf(s) ==
  IF s[1] = "-" THEN 0 - DigitsValue(Tail(s))
  ELSE IF s[1] = "+" THEN DigitsValue(Tail(s))
  ELSE DigitsValue(s)

\* C16: the parsing of the rate-limit headers never fails the call:
\* newResponse always gives an envelope, each field of its Rate is the
\* integer value of the header of that field, and a header that is missing
\* or is no number leaves exactly that field at zero, whatever the other
\* headers are.
C16_RateFieldsFromOwnHeaders ==
  app.fn = "newResponse" /\ app.out # Nil =>
    LET rate == app.out.once.Rate
        h == app.arg.rate
        Right(field, header) ==
          field = IF IsInteger(header) THEN IntegerOf(header) ELSE 0
    IN  /\ app.out.once.type = "Response"
        /\ Right(rate.Limit, h.Limit)
        /\ Right(rate.Used, h.Used)
        /\ Right(rate.Remaining, h.Remaining)
        /\ Right(rate.Reset, h.Reset)

\* The response has no Limit header and a Used header that is no number:
\* both fields are zero, Remaining and Reset are the values of their headers.
C16_Witness ==
  /\ app.fn = "newResponse"
  /\ app.out # Nil
  /\ app.arg.rate = RateHeader(<<>>, <<"1", "x">>, <<"7">>, <<"6", "0">>)
  /\ app.out.once.Rate = [Limit |-> 0, Used |-> 0, Remaining |-> 7, Reset |-> 60]

\* The values of the parameter key in a raw query, in their order.
ValuesOf(raw, key) ==
  LET pairs == SelectSeq(ParseQuery(raw), LAMBDA pair : pair.key = key)
  IN  [i \in 1..Len(pairs) |-> pairs[i].value]

\* The parameters of a raw query other than per_page and page.
OtherParameters(raw) ==
  LET pairs == ParseQuery(raw)
  IN  {pairs[i] : i \in {n \in 1..Len(pairs) :
                           pairs[n].key \notin {<<"per_page">>, <<"page">>}}}

\* C17: NewPageRequest fails when and as NewRequest fails and otherwise
\* builds the request of NewRequest: the same method, host, path and
\* headers, and the same query parameters, to which it adds per_page if and
\* only if pageSize > 0 and page if and only if pageNo > 0, each with the
\* decimal digits of the value; with both values zero or negative the query
\* carries neither.
C17_PageParametersWhenPositive ==
  \A c \in Callers :
    pc[c] # "idle" /\ args[c].op = "page" =>
      LET a == args[c]
          plain == NewRequest(publicAPIURL, accessToken, a.ctx, a.method,
                              a.url, a.body)
          paged == NewPageRequest(publicAPIURL, accessToken, a.ctx, a.method,
                                  a.url, a.pageSize, a.pageNo, a.body)
          Decimal(n) == <<Itoa(n)>>
      IN  /\ paged.err = plain.err
          /\ plain.err = Nil =>
               /\ req[c] = paged.req
               /\ [req[c] EXCEPT !.URL.RawQuery = <<>>]
                    = [plain.req EXCEPT !.URL.RawQuery = <<>>]
               /\ OtherParameters(req[c].URL.RawQuery)
                    = OtherParameters(plain.req.URL.RawQuery)
               /\ ValuesOf(req[c].URL.RawQuery, <<"per_page">>)
                    = IF a.pageSize > 0 THEN Decimal(a.pageSize) ELSE <<>>
               /\ ValuesOf(req[c].URL.RawQuery, <<"page">>)
                    = IF a.pageNo > 0 THEN Decimal(a.pageNo) ELSE <<>>
               /\ a.pageSize <= 0 /\ a.pageNo <= 0 =>
                    \A i \in DOMAIN ParseQuery(req[c].URL.RawQuery) :
                      ParseQuery(req[c].URL.RawQuery)[i].key
                        \notin {<<"per_page">>, <<"page">>}

\* A paginated request with a page size and no page number, on a URL that
\* has a query of its own, is on its way.
C17_Witness ==
  /\ pc["c1"] = "dispatch"
  /\ args["c1"].op = "page"
  /\ args["c1"].pageSize = 30
  /\ args["c1"].pageNo = 0
  /\ args["c1"].url = RepoQueryURL
  /\ req["c1"].URL.RawQuery =
       <<"label", "=", "bug", "&", "per_page", "=", "3", "0", "&",
         "state", "=", "open">>

\* C18: every request a builder returns carries the User-Agent of the
\* package, and carries the Authorization header "token <access-token>" if
\* and only if the access token of the client is not empty. A plain or a
\* paginated request also carries the Accept header of the v3 media type,
\* and the Content-Type header of JSON if and only if a body was given. A
\* download request carries neither Accept nor Content-Type.
C18_HeadersOfBuilders ==
  \A c \in Callers :
    pc[c] # "idle" /\ req[c] # Nil =>
      LET h == req[c].Header
          a == args[c]
      IN  /\ h.UserAgent = userAgent
          /\ accessToken # "" => h.Authorization = <<"token ", accessToken>>
          /\ accessToken = "" => h.Authorization = <<>>
          /\ a.op \in {"plain", "page"} =>
               /\ h.Accept = mediaTypeV3
               /\ a.body # "nil" => h.ContentType = mediaJSON
               /\ a.body = "nil" => h.ContentType = ""
          /\ a.op = "download" => h.Accept = "" /\ h.ContentType = ""

\* A client without a token has built a download request: it carries the
\* User-Agent and nothing else.
C18_Witness ==
  /\ accessToken = ""
  /\ pc["c1"] = "dispatch"
  /\ args["c1"].op = "download"
  /\ req["c1"].Header =
       [UserAgent |-> userAgent, Accept |-> "", Authorization |-> <<>>,
        ContentType |-> ""]

\* C19: the file of an upload is never left open. NewUploadRequest returns
\* a closer exactly when it returns no error; when it fails after the open
\* (Stat, the read of a file without content, Seek, a nil context) it has
\* closed the file; and UploadReleaseAsset has closed the file when it
\* returns, whatever Do returned: a file is open only while the operation
\* that opened it is under way.
C19_UploadFileClosed ==
  \A c \in Callers :
    /\ file[c] = "open" => pc[c] \notin {"idle", "done"}
    /\ pc[c] # "idle" /\ args[c].op = "upload" =>
         LET a == args[c]
             built == NewUploadRequest(publicUploadURL, accessToken, a.ctx,
                                       a.url, a.file)
             opened == ~HasPrefix(a.url, <<":">>) /\ a.file # "missing"
         IN  /\ built.closer # Nil <=> built.err = Nil
             /\ built.err # Nil => built.file = IF opened THEN "closed"
                                               ELSE "none"
             /\ opened /\ (a.file \in {"nostat", "noread", "empty", "noseek"}
                            \/ a.ctx = Nil) => built.err # Nil
             /\ built.err = Nil /\ pc[c] = "done" => file[c] = "closed"
             /\ built.err = Nil /\ pc[c] # "done" => file[c] = "open"

\* An upload whose response could not be decoded has returned the error of
\* the decoder, and its file is closed.
C19_Witness ==
  /\ pc["c1"] = "done"
  /\ args["c1"].op = "upload"
  /\ r["c1"] # Nil
  /\ ret["c1"].err = SyntaxError
  /\ file["c1"] = "closed"

\* The scopes that a value of the X-OAuth-Scopes header grants.
GrantedScopes(header) ==
  LET names == Split(header, ", ") IN {names[i] : i \in DOMAIN names}

\* The positions of the requested scopes that the response does not grant.
ScopesNotGranted(c) ==
  {i \in DOMAIN args[c].scopes :
     args[c].scopes[i] \notin GrantedScopes(r[c].Header.Scopes)}

EnsureScopesReturned(c) == pc[c] = "done" /\ args[c].op = "scopes"

\* C20: EnsureScopes returns nil only if the response to HEAD /user grants
\* every requested scope; otherwise it returns an error that names the first
\* requested scope, in the order of the arguments, that is not granted; an
\* error of the construction of the request or of Do is returned unchanged.
C20_ScopesAllGranted ==
  \A c \in Callers :
    EnsureScopesReturned(c) =>
      LET built == ServiceRequest(accessToken, args[c])
          err == svc[c].err
          missing == ScopesNotGranted(c)
      IN  /\ built.err # Nil => err = built.err
          /\ (built.err = Nil /\ ret[c].err # Nil) => err = ret[c].err
          /\ (built.err = Nil /\ ret[c].err = Nil) =>
                /\ err = Nil => missing = {}
                /\ missing # {} =>
                     err = ScopeError(args[c].scopes[
                             CHOOSE i \in missing : \A j \in missing : i <= j])

\* The errors that wrap a ResponseError.
WrappingErrors ==
  {"AuthError", "RateLimitError", "RateLimitAbuseError", "NotFoundError"}

\* C21: Unwrap on AuthError, RateLimitError, RateLimitAbuseError and
\* NotFoundError returns the ResponseError the error was built with. Every
\* such error that Do returns for a response of the server wraps the
\* ResponseError of that response, with its status and the message parsed
\* from its body; the RateLimitError of the rate check, and no other, wraps
\* nothing.
C21_UnwrapGivesResponseError ==
  \A c \in OneCaller :
    (pc[c] = "done" /\ ret[c].err.type \in WrappingErrors) =>
       /\ Unwrap(AuthError(Unwrap(ret[c].err))) = ret[c].err.err
       /\ Unwrap(NotFoundError(Unwrap(ret[c].err))) = ret[c].err.err
       /\ Unwrap(RateLimitError(Unwrap(ret[c].err), req[c], ZeroRate))
            = ret[c].err.err
       /\ Unwrap(RateLimitAbuseError(Unwrap(ret[c].err), ZeroRate, 0))
            = ret[c].err.err
       /\ IF r[c] # Nil
            THEN /\ Unwrap(ret[c].err).type = "ResponseError"
                 /\ Unwrap(ret[c].err).Response = r[c]
                 /\ Unwrap(ret[c].err).Response.StatusCode = r[c].StatusCode
                 /\ Unwrap(ret[c].err).Message =
                      (IF r[c].Body.kind = "object" THEN r[c].Body.message
                       ELSE "")
            ELSE /\ ret[c].err.type = "RateLimitError"
                 /\ Unwrap(ret[c].err) = Nil
                 /\ trips[c] = 0

\* A 401 response with a JSON message came back as an AuthError that wraps
\* the ResponseError of that response.
C21_Witness ==
  /\ Answered("c1")
  /\ r["c1"].StatusCode = StatusUnauthorized
  /\ r["c1"].Body.kind = "object"
  /\ ret["c1"].err.type = "AuthError"
  /\ Unwrap(ret["c1"].err).Message = "Not Found"
  /\ Unwrap(ret["c1"].err).Response.StatusCode = StatusUnauthorized

\* The response of caller c is a 403 that is neither an exhausted quota nor
\* an abuse of the rate limit.
PlainForbidden(c) ==
  /\ Answered(c)
  /\ r[c].StatusCode = StatusForbidden
  /\ r[c].Header.Remaining # <<"0">>
  /\ ~(/\ r[c].Body.kind = "object"
       /\ HasSuffix(r[c].Body.documentation_url, abuseMarker))

\* C22: for a 403 response whose X-RateLimit-Remaining header is not "0" and
\* whose documentation URL does not end with the abuse marker, Do makes no
\* error: it goes on to the body step and returns the envelope of the
\* response with a nil error, and the sink receives nothing, because the
\* read of the error body has consumed the body.
C22_PlainForbiddenFallsThrough ==
  \A c \in OneCaller :
    PlainForbidden(c) =>
       /\ ret[c].err = Nil
       /\ ret[c].resp # Nil
       /\ ret[c].resp.Response = r[c]
       /\ sunk[c] = Nil
       /\ svc[c].err = Nil

\* A 403 response with calls left and a JSON body without the abuse marker
\* came back to a caller with a JSON sink as an envelope without an error.
C22_Witness ==
  /\ PlainForbidden("c1")
  /\ sink["c1"] = "json"
  /\ r["c1"].Body.kind = "object"
  /\ r["c1"].Header.Remaining = <<"7">>
  /\ ret["c1"].err = Nil
  /\ ret["c1"].resp # Nil
  /\ sunk["c1"] = Nil

\* The server answered caller c, who gave a sink that is no writer, with a
\* success status.
SuccessForDecoder(c) ==
  /\ Answered(c)
  /\ r[c].StatusCode \in SuccessStatuses
  /\ sink[c] = "json"

\* C23: on a success status with a sink that is no writer, an empty body is
\* accepted (nil error, the envelope returned, the sink left as it was), and
\* a malformed JSON body makes Do return the error of the decoder with a nil
\* envelope; in the malformed case the tracker entry of the group is
\* nevertheless the Rate of the headers of the response.
C23_EmptyBodyToleratedMalformedFails ==
  \A c \in OneCaller :
    SuccessForDecoder(c) =>
       /\ r[c].Body.kind = "empty" =>
            /\ ret[c].err = Nil
            /\ ret[c].resp # Nil
            /\ sunk[c] = Nil
       /\ r[c].Body.kind = "malformed" =>
            /\ ret[c].err = SyntaxError
            /\ ret[c].resp = Nil
            /\ sunk[c] = Nil
            /\ GroupOf(c) \in DOMAIN rates
            /\ rates[GroupOf(c)] = ParseRate(r[c].Header)

\* A 201 response with a malformed body gave the error of the decoder after
\* the tracker took the exhausted quota of its headers.
C23_Witness ==
  /\ SuccessForDecoder("c1")
  /\ r["c1"].StatusCode = StatusCreated
  /\ r["c1"].Body.kind = "malformed"
  /\ ret["c1"].err = SyntaxError
  /\ ret["c1"].resp = Nil
  /\ rates[rateGroupCore] = [Limit |-> 60, Used |-> 60, Remaining |-> 0, Reset |-> 2]

\* The steps of a Do call in their order: each pair is a position of a
\* caller and the position that may follow it. The rate check, the transport
\* call, the error mapping and the body step can end the call.
StepOrder ==
  {<<"start", "checking">>, <<"checking", "dispatch">>, <<"checking", "done">>,
   <<"dispatch", "responded">>, <<"dispatch", "done">>,
   <<"responded", "updating">>, <<"updating", "updated">>,
   <<"updated", "reading">>, <<"updated", "mapping">>,
   <<"reading", "done">>, <<"mapping", "done">>}

\* The positions of a caller inside Do.
InsideDo == {"start", "checking", "dispatch", "responded", "updating",
             "updated", "mapping", "reading"}

\* C24: every Do call takes its steps in one order: the rate check, the
\* transport call, the classification of the headers with the tracker
\* update, the decision on the status, then either the body step or the
\* error mapping. Only the rate check ends a call before the transport
\* call; the tracker is written after a response has arrived and before the
\* status is examined; and each call ends with an envelope or with an error,
\* never both or neither.
C24_StepsInFixedOrder ==
  /\ [][\A c \in OneCaller :
          /\ (pc[c] \in InsideDo /\ pc'[c] # pc[c]) =>
                <<pc[c], pc'[c]>> \in StepOrder
          /\ (pc[c] \in InsideDo /\ pc'[c] = "done" /\ trips'[c] = 0) =>
                pc[c] = "checking"
          /\ rates' # rates =>
                (pc[c] = "updating" /\ pc'[c] = "updated" /\ r[c] # Nil)]_vars
  /\ [](\A c \in OneCaller :
          /\ pc[c] \in {"updated", "mapping", "reading"} =>
                /\ GroupOf(c) \in DOMAIN rates
                /\ rates[GroupOf(c)] = ParseRate(r[c].Header)
          /\ (pc[c] = "done" /\ req[c] # Nil) =>
                ((ret[c].err = Nil) <=> (ret[c].resp # Nil)))

\* No caller is inside a service operation.
AllReturned == \A c \in Callers : pc[c] \in {"idle", "done"}

\* C25 as stated: when the Do calls of several callers for one rate group
\* have all returned, the tracker entry of the group is the Rate of the
\* response that the transport delivered last.
C25_TrackerHoldsLatestDelivered ==
  AllReturned =>
    \A g \in DOMAIN delivered :
      g \in DOMAIN rates /\ rates[g] = ParseRate(delivered[g])

\* C25, amended: the tracker entry of a group is the Rate of the response
\* that was written last: every update step writes the Rate of the response
\* of its own call, whatever the entry holds and whichever response was
\* delivered last.
C25_TrackerHoldsLastWritten ==
  /\ [][\A c \in Callers :
          (pc[c] = "updating" /\ pc'[c] = "updated") =>
             /\ rates'[GroupOf(c)] = ParseRate(r[c].Header)
             /\ recorded'[GroupOf(c)] = RateHeaderOf(r[c].Header)]_vars
  /\ [](\A g \in DOMAIN recorded :
          g \in DOMAIN rates /\ rates[g] = ParseRate(recorded[g]))

\* Two calls of the core group have returned; the response that was
\* delivered first was written last, and the tracker holds its Rate.
C25_Witness ==
  /\ \A c \in Callers : Answered(c) /\ GroupOf(c) = rateGroupCore
  /\ recorded[rateGroupCore] # delivered[rateGroupCore]
  /\ rates[rateGroupCore] = ParseRate(recorded[rateGroupCore])
  /\ rates[rateGroupCore] # ParseRate(delivered[rateGroupCore])

\* The entry of group g in the tracker m forbids a call at the time t.
Blocking(m, g, t) == RateBlocked(g \in DOMAIN m, MapGet(m, g), t)

\* Caller c hands its request to the transport.
Dispatches(c) == pc[c] = "dispatch" /\ pc'[c] # "dispatch"

\* C26 as stated: no request is handed to the transport while the tracker
\* entry of its group is blocking, whatever the interleaving of the calls.
C26_NoDispatchWhileBlocking ==
  [][\A c \in Callers :
       Dispatches(c) => ~Blocking(rates, GroupOf(c), now)]_vars

\* C26, amended: a call goes from its rate check to the transport only when
\* the entry of its group is not blocking at the check, and between that
\* check and the dispatch the entry becomes blocking only by the tracker
\* update of another caller for the same group.
C26_NotBlockingAtCheck ==
  [][\A c \in Callers :
       /\ (pc[c] = "checking" /\ pc'[c] = "dispatch") =>
             /\ ~Blocking(rates, GroupOf(c), now)
             /\ ~Blocking(rates', GroupOf(c), now')
       /\ (/\ pc[c] = "dispatch"
           /\ pc'[c] = "dispatch"
           /\ ~Blocking(rates, GroupOf(c), now)
           /\ Blocking(rates', GroupOf(c), now')) =>
             \E d \in Callers \ {c} :
               /\ pc[d] = "updating"
               /\ pc'[d] = "updated"
               /\ GroupOf(d) = GroupOf(c)]_vars

\* A call of the core group has passed its rate check and stands before the
\* transport call, and the response of the other caller has made the entry
\* of the group blocking in the meantime.
C26_Witness ==
  /\ pc["c1"] = "dispatch"
  /\ GroupOf("c1") = rateGroupCore
  /\ Blocking(rates, rateGroupCore, now)
  /\ Answered("c2")
  /\ GroupOf("c2") = rateGroupCore

\* Caller c makes its rate check at or after the reset time of an entry of
\* its group that has no calls remaining.
ChecksAfterReset(c) ==
  /\ pc[c] = "checking"
  /\ pc'[c] # "checking"
  /\ GroupOf(c) \in DOMAIN rates
  /\ rates[GroupOf(c)].Remaining = 0
  /\ ~BeforeReset(now, rates[GroupOf(c)])

\* C27 as stated: a blocking entry stays blocking until its reset time is
\* reached, whatever step of whatever caller is taken, and a call checked at
\* or after the reset time goes on to the transport.
C27_BlockingUntilReset ==
  [][/\ \A g \in DOMAIN rates :
          Blocking(rates, g, now) =>
            Blocking(rates', g, now') \/ ~BeforeReset(now', rates[g])
     /\ \A c \in Callers : ChecksAfterReset(c) => pc'[c] = "dispatch"]_vars

\* C27, amended: before its reset time a blocking entry is replaced by a
\* non-blocking one only by the tracker update of a call of the same group,
\* and a call checked at or after the reset time goes on to the transport.
C27_BlockingUntilResetOrUpdate ==
  [][/\ \A g \in DOMAIN rates :
          Blocking(rates, g, now) =>
            \/ Blocking(rates', g, now')
            \/ ~BeforeReset(now', rates[g])
            \/ \E d \in Callers : /\ pc[d] = "updating"
                                  /\ pc'[d] = "updated"
                                  /\ GroupOf(d) = g
     /\ \A c \in Callers : ChecksAfterReset(c) => pc'[c] = "dispatch"]_vars

\* The second caller was answered with no calls remaining until a reset time
\* that lies ahead, and the update of the first caller, whose response still
\* had calls remaining, has replaced the entry of the group since.
C27_Witness ==
  /\ Answered("c2")
  /\ GroupOf("c2") = rateGroupCore
  /\ RateBlocked(TRUE, newResponse(r["c2"]).Rate, now)
  /\ pc["c1"] = "updated"
  /\ GroupOf("c1") = rateGroupCore
  /\ rates[rateGroupCore] = newResponse(r["c1"]).Rate
  /\ ~Blocking(rates, rateGroupCore, now)

\* The value of a header is a number, as strconv.Atoi accepts it, and the
\* number is 0.
CarriesZero(s) ==
  LET digits == IF s # <<>> /\ s[1] \in {"+", "-"} THEN Tail(s) ELSE s
  IN  digits # <<>> /\ AllDigits(digits) /\ DigitsValue(digits) = 0

\* C28: a call is rejected by the rate check only when the response recorded
\* last for its group carried a Remaining header with the value 0; a missing
\* Remaining header, or one that is no number, never has a later call of the
\* group rejected.
C28_RejectedOnlyAfterRemainingZero ==
  \A c \in Callers :
    RejectedLocally(c) =>
      /\ GroupOf(c) \in DOMAIN recorded
      /\ CarriesZero(recorded[GroupOf(c)].Remaining)

\* The mutex is held by a caller only between its Lock and the Unlock that
\* follows: during the read of the rate check and during the tracker update.
MutexHeldOnlyForAccess ==
  \A c \in Callers : ratesMutex = c <=> pc[c] \in {"checking", "updating"}

\* Some caller can take a step whenever a caller is inside Do: the mutex a
\* caller waits for is free, or its holder stands before its Unlock.
NoDeadlock ==
  \A c \in Callers :
    pc[c] \in {"start", "responded"} =>
      \/ ratesMutex = NoCaller
      \/ \E d \in Callers \ {c} :
           ratesMutex = d /\ pc[d] \in {"checking", "updating"}

\* C29: under fair scheduling and a transport that returns, every Do call of
\* concurrent callers on one client returns in the end; the mutex is held
\* only from a Lock to the Unlock that follows it, never at a return or
\* across the transport call, and no caller waits for a mutex that is never
\* released.
C29_EveryCallReturns ==
  /\ []MutexHeldOnlyForAccess
  /\ []NoDeadlock
  /\ \A c \in Callers : (pc[c] \in InsideDo) ~> (pc[c] = "done")

\* The first caller waits with its response for the mutex while the second
\* holds it for its rate check.
C29_Witness ==
  /\ pc["c1"] = "responded"
  /\ pc["c2"] = "checking"
  /\ ratesMutex = "c2"

\* The entry of group g differs between the trackers m and n.
EntryDiffers(m, n, g) ==
  \/ (g \in DOMAIN m) # (g \in DOMAIN n)
  \/ g \in DOMAIN m /\ g \in DOMAIN n /\ m[g] # n[g]

\* C30: the tracker of a new client holds no entry; the entry of a group
\* changes only in the tracker update of a call of that group; and the rate
\* check of a call rejects it exactly when the entry of its own group is
\* blocking, whatever the entries of the other groups are.
C30_GroupsIsolated ==
  /\ rates = <<>>
  /\ [][/\ \A g \in RateGroups :
             EntryDiffers(rates, rates', g) =>
               \E c \in Callers : /\ pc[c] = "updating"
                                  /\ pc'[c] = "updated"
                                  /\ GroupOf(c) = g
        /\ \A c \in Callers :
             (pc[c] = "checking" /\ pc'[c] # "checking") =>
               IF Blocking(rates, GroupOf(c), now)
                 THEN pc'[c] = "done"
                 ELSE pc'[c] = "dispatch"]_vars

\* The entry of the core group is blocking, and a call of the search group
\* has passed its rate check.
C30_Witness ==
  /\ pc["c1"] = "dispatch"
  /\ GroupOf("c1") = rateGroupSearch
  /\ Blocking(rates, rateGroupCore, now)

====
